---- MODULE Spec2Model ----
(***************************************************************************)
(* A model of quicksql's connection resolver, document reader and parsers, *)
(* validation pass, decorator-based executor chain and file watcher        *)
(* (src/src/quicksql/core, src/src/quicksql/parsers).                      *)
(*                                                                         *)
(* Strings that the code inspects or concatenates (connection strings,     *)
(* backend names, cache keys, the content of a file) are sequences of      *)
(* one-character strings, so that endswith / lower / strip / splitlines /  *)
(* the regular expressions / f"{a}:{b}" are computed, not assumed.  In the *)
(* executor and the watcher, where cell names and cell texts are only      *)
(* compared, a document is the sequence of its parsed cells and names and  *)
(* texts stay atomic.                                                      *)
(***************************************************************************)
EXTENDS Integers, Sequences, FiniteSets, TLC

(***************************************************************************)
(* String helpers                                                          *)
(***************************************************************************)
S_duckdb   == <<"d", "u", "c", "k", "d", "b">>
S_bigquery == <<"b", "i", "g", "q", "u", "e", "r", "y">>
S_ddb      == <<".", "d", "d", "b">>
S_dotduck  == <<".", "d", "u", "c", "k", "d", "b">>
S_memory   == <<":", "m", "e", "m", "o", "r", "y", ":">>
S_bqscheme == <<"b", "i", "g", "q", "u", "e", "r", "y", ":", "/", "/">>

\* str.lower() on the characters the model uses
Uppercase == <<"A", "B", "C", "D", "E", "G", "I", "K", "M", "O", "Q", "R", "U", "Y">>

Lowercase == <<"a", "b", "c", "d", "e", "g", "i", "k", "m", "o", "q", "r", "u", "y">>

LowerChar(c) ==
    IF \E i \in 1..Len(Uppercase) : Uppercase[i] = c
    THEN Lowercase[CHOOSE i \in 1..Len(Uppercase) : Uppercase[i] = c]
    ELSE c

Lower(s) == [i \in 1..Len(s) |-> LowerChar(s[i])]

RECURSIVE LStrip(_)
LStrip(s) == IF s # <<>> /\ Head(s) = " " THEN LStrip(Tail(s)) ELSE s

RECURSIVE RStrip(_)
RStrip(s) ==
    IF s # <<>> /\ s[Len(s)] = " " THEN RStrip(SubSeq(s, 1, Len(s) - 1)) ELSE s

Strip(s) == RStrip(LStrip(s))

EndsWith(s, suf) ==
    /\ Len(suf) <= Len(s)
    /\ SubSeq(s, Len(s) - Len(suf) + 1, Len(s)) = suf

StartsWith(s, pre) ==
    /\ Len(pre) <= Len(s)
    /\ SubSeq(s, 1, Len(pre)) = pre

(***************************************************************************)
(* models.py: ConnectionResolver                                           *)
(***************************************************************************)
IsDuckdbPath(path) ==
    EndsWith(path, S_ddb) \/ EndsWith(path, S_dotduck) \/ path = S_memory

\* a matcher that compares the path as it is written
_is_duckdb_as_written(conn) == IsDuckdbPath(Strip(conn))

_is_duckdb(conn) == IsDuckdbPath(Strip(Lower(conn)))

_is_bigquery(conn) == StartsWith(Lower(Strip(conn)), S_bqscheme)

\* the matchers in registration order: duckdb first, then bigquery
Matches(backend, conn) ==
    IF backend = S_duckdb THEN _is_duckdb(conn) ELSE _is_bigquery(conn)

_resolvers == <<S_duckdb, S_bigquery>>

\* a resolver in which the matcher registered last wins
LastOf(hits) ==
    IF hits = {}
    THEN [ok |-> FALSE, backend_name |-> <<>>]
    ELSE [ok |-> TRUE,
          backend_name |-> _resolvers[CHOOSE j \in hits : \A k \in hits : j >= k]]

\* ConnectionResolver.resolve: the first matching backend name, or ValueError
FirstOf(hits) ==
    IF hits = {}
    THEN [ok |-> FALSE, backend_name |-> <<>>]
    ELSE [ok |-> TRUE,
          backend_name |-> _resolvers[CHOOSE j \in hits : \A k \in hits : j <= k]]

\* the message of the ValueError resolve raises, its fixed parts as one
\* element each
S_cannot == "Cannot infer backend from connection string: '"

S_supported == "'\nSupported formats:\n"

_get_supported_formats ==
    <<"  - DuckDB: .ddb, .duckdb, :memory:\n",
      "  - BigQuery: bigquery://project_id or bigquery://project_id/location">>

ResolveMessage(connection_string) ==
    <<S_cannot>> \o connection_string \o <<S_supported>> \o _get_supported_formats

Resolve(conn) == FirstOf({j \in 1..Len(_resolvers) : Matches(_resolvers[j], conn)})

(***************************************************************************)
(* models.py: CellConfig / InputConfig                                     *)
(*                                                                         *)
(* A raw config is [input, output].  A raw input is                        *)
(*   [kind, a, b, aStr, bStr] with kind                                    *)
(*     "none"      absent or null                                          *)
(*     "str"       the bare string a                                       *)
(*     "dict1"     the single-entry mapping {a: b}                         *)
(*     "dictN"     a mapping with zero or several entries                  *)
(*     "resolved"  {backend_name: a, connection_string: b}; aStr / bStr    *)
(*                 tell whether the field is present and a string          *)
(*     "other"     any other type (a number, a list)                       *)
(*     "inst"      an InputConfig instance with backend_name a and         *)
(*                 connection_string b                                     *)
(* A raw output is [kind, path] with kind "none", "str" or "other".        *)
(***************************************************************************)
NoInput == [kind |-> "none", a |-> <<>>, b |-> <<>>, aStr |-> TRUE, bStr |-> TRUE]

StrInput(s) == [kind |-> "str", a |-> s, b |-> <<>>, aStr |-> TRUE, bStr |-> TRUE]

Dict1Input(bn, cs) == [kind |-> "dict1", a |-> bn, b |-> cs, aStr |-> TRUE, bStr |-> TRUE]

DictNInput == [kind |-> "dictN", a |-> <<>>, b |-> <<>>, aStr |-> TRUE, bStr |-> TRUE]

ResolvedInput(bn, cs, bnStr, csStr) ==
    [kind |-> "resolved", a |-> bn, b |-> cs, aStr |-> bnStr, bStr |-> csStr]

OtherInput == [kind |-> "other", a |-> <<>>, b |-> <<>>, aStr |-> TRUE, bStr |-> TRUE]

InstInput(bn, cs) == [kind |-> "inst", a |-> bn, b |-> cs, aStr |-> TRUE, bStr |-> TRUE]

NoOutput == [kind |-> "none", path |-> <<>>]

StrOutput(p) == [kind |-> "str", path |-> p]

OtherOutput == [kind |-> "other", path |-> <<>>]

\* the validated InputConfig, or None
NoneInput == [isNone |-> TRUE, backend_name |-> <<>>, connection_string |-> <<>>]

InputConfig(bn, cs) == [isNone |-> FALSE, backend_name |-> bn, connection_string |-> cs]

\* CellConfig.parse_input (the mode="before" validator): the value left in
\* data["input"], or the ValueError it raises.
\*   vErr   a ValueError was raised (pydantic reports it as one error, loc ())
\*   shape  "none" | "inst" (an InputConfig instance) | "dict" (still a mapping)
Parsed(vErr, shape, inst) == [vErr |-> vErr, shape |-> shape, inst |-> inst]

Inferred(raw, r) ==
    IF r.ok
    THEN Parsed(FALSE, "inst", InputConfig(r.backend_name, raw.a))
    ELSE Parsed(TRUE, "none", NoneInput)

\* a normalisation that takes the single entry of a mapping only when its key
\* is a backend some resolver is registered for
ExplicitRegisteredOnly(raw) ==
    IF \E j \in 1..Len(_resolvers) : _resolvers[j] = raw.a
    THEN Parsed(FALSE, "inst", InputConfig(raw.a, raw.b))
    ELSE Parsed(TRUE, "none", NoneInput)

\* Format 2, a mapping of one entry: backend_name, connection_string =
\* next(iter(raw_input.items())), no registry is asked
Explicit(raw) == Parsed(FALSE, "inst", InputConfig(raw.a, raw.b))

parse_input(raw) ==
    CASE raw.kind = "none" -> Parsed(FALSE, "none", NoneInput)
      [] raw.kind = "resolved" -> Parsed(FALSE, "dict", InputConfig(raw.a, raw.b))
      [] raw.kind = "inst" -> Parsed(FALSE, "inst", InputConfig(raw.a, raw.b))
      [] raw.kind = "str" -> Inferred(raw, Resolve(raw.a))
      [] raw.kind = "dict1" -> Explicit(raw)
      [] raw.kind = "dictN" -> Parsed(TRUE, "none", NoneInput)
      [] OTHER -> Parsed(TRUE, "none", NoneInput)

\* field paths of the errors pydantic reports, in field order
S_input == <<"i", "n", "p", "u", "t">>

S_output == <<"o", "u", "t", "p", "u", "t">>

S_backend_name == <<"b", "a", "c", "k", "e", "n", "d", "_", "n", "a", "m", "e">>

S_connection_string == <<"c", "o", "n", "n", "e", "c", "t", "i", "o", "n", "_",
                         "s", "t", "r", "i", "n", "g">>

FP_root   == <<>>
FP_input_backend_name == <<S_input, S_backend_name>>
FP_input_connection_string == <<S_input, S_connection_string>>
FP_output == <<S_output>>

\* the schema errors of the fields, after parse_input left p in data["input"]
FieldErrors(config, p) ==
    IF p.vErr THEN <<FP_root>>
    ELSE (IF p.shape = "dict" /\ ~config.input.aStr
          THEN <<FP_input_backend_name>> ELSE <<>>)
         \o (IF p.shape = "dict" /\ ~config.input.bStr
             THEN <<FP_input_connection_string>> ELSE <<>>)
         \o (IF config.output.kind = "other" THEN <<FP_output>> ELSE <<>>)

\* the mapping model_validate was given, after parse_input ran on it:
\* data["input"] = InputConfig(...) is an assignment to the caller's mapping
DataAfter(config, p) ==
    IF ~p.vErr /\ p.shape = "inst"
    THEN [input |-> InstInput(p.inst.backend_name, p.inst.connection_string),
          output |-> config.output]
    ELSE config

Validation(config, p, errs) ==
    [ok |-> errs = <<>>,
     data |-> DataAfter(config, p),
     exc |-> IF errs = <<>> THEN "none" ELSE "ValidationError",
     errs |-> errs,
     value |-> [input |-> p.inst,
                output |-> IF config.output.kind = "str"
                           THEN [isNone |-> FALSE, path |-> config.output.path]
                           ELSE [isNone |-> TRUE, path |-> <<>>]]]

ValidationOf(config, p) == Validation(config, p, FieldErrors(config, p))

\* CellConfig.model_validate(config): the validated config, or the field paths
\* of the errors of the ValidationError (never empty when it is raised)
model_validate(config) == ValidationOf(config, parse_input(config.input))

(***************************************************************************)
(* Documents.  What QsqlFile.parsed_cells returns for a document: the      *)
(* cells in document order, each [cell_name, cell_start, text, config].    *)
(* A document is written as the sequence of its [cell_name, text, config]; *)
(* the layout is one header line and two lines per cell, so the i-th cell  *)
(* starts on the 0-based line 1 + 2 * (i - 1).                             *)
(***************************************************************************)
CellStart(i) == 1 + 2 * (i - 1)

ParsedCells(doc) ==
    [i \in 1..Len(doc) |->
        [cell_name |-> doc[i].cell_name,
         cell_start |-> CellStart(i),
         text |-> doc[i].text,
         config |-> doc[i].config]]

\* all sequences over S of length at most n
SeqsUpTo(S, n) == UNION {[1..k -> S] : k \in 0..n}

(***************************************************************************)
(* executor.py: validate_cells                                             *)
(***************************************************************************)
NoneConfig == [isNone |-> TRUE,
               input |-> NoneInput,
               output |-> [isNone |-> TRUE, path |-> <<>>]]

SomeConfig(v) == [isNone |-> FALSE, input |-> v.input, output |-> v.output]

\* {**cell, "validated_config": vc}: the copy is shallow, its "config" is the
\* mapping model_validate was given, as the validator left it
WithValidated(cell, data, vc) ==
    [cell_name |-> cell.cell_name,
     cell_start |-> cell.cell_start,
     text |-> cell.text,
     config |-> data,
     validated_config |-> vc]

CellValidationError(cell, fp) ==
    [cell_name |-> cell.cell_name,
     cell_start_line |-> cell.cell_start,
     field_path |-> fp]

\* ".".join(str(loc) for loc in err["loc"])
RECURSIVE DotJoinFrom(_, _, _)
DotJoinFrom(loc, i, acc) ==
    IF i > Len(loc) THEN acc
    ELSE DotJoinFrom(loc, i + 1, IF i = 1 THEN loc[i] ELSE acc \o <<".">> \o loc[i])

DotJoin(loc) == DotJoinFrom(loc, 1, <<>>)

\* except ValidationError as e: for err in e.errors(): add_error(...)
SchemaErrors(cell, errs) ==
    [k \in 1..Len(errs) |-> CellValidationError(cell, DotJoin(errs[k]))]

\* one pass of the for loop on `cell`, r = model_validate(config): the errors
\* added to the collector and the entry appended to validated_cells
ValidatedOne(cell, r) ==
    CASE r.exc = "none" ->
            [errors |-> <<>>, cell |-> WithValidated(cell, r.data, SomeConfig(r.value))]
      [] r.exc = "ValidationError" ->
            [errors |-> SchemaErrors(cell, r.errs),
             cell |-> WithValidated(cell, r.data, NoneConfig)]
      [] OTHER ->
            \* except ValueError: one error, field_path "input"
            [errors |-> <<CellValidationError(cell, S_input)>>,
             cell |-> WithValidated(cell, r.data, NoneConfig)]

ValidateOne(cell) == ValidatedOne(cell, model_validate(cell.config))

\* a loop that leaves at the first invalid cell
RECURSIVE ValidateLoopStopAtFirst(_, _, _, _)
ValidateLoopStopAtFirst(cells, i, errors, out) ==
    IF i > Len(cells) \/ errors # <<>>
    THEN [errors |-> errors, cells |-> out]
    ELSE ValidateLoopStopAtFirst(cells, i + 1, ValidateOne(cells[i]).errors,
                                 Append(out, ValidateOne(cells[i]).cell))

\* for cell in qsql_file.parsed_cells, from cell i on
RECURSIVE ValidateLoop(_, _, _, _)
ValidateLoop(cells, i, errors, out) ==
    IF i > Len(cells)
    THEN [errors |-> errors, cells |-> out]
    ELSE ValidateLoop(cells, i + 1, errors \o ValidateOne(cells[i]).errors,
                      Append(out, ValidateOne(cells[i]).cell))

\* a check of the collector that forgets the mode
ShouldRaiseIgnoringMode(skip_validation, errors) == errors # <<>>

\* if not skip_validation and error_collector.has_errors(): raise
ShouldRaise(skip_validation, errors) == ~skip_validation /\ errors # <<>>

\* validate_cells(qsql_file, skip_validation) on the cells the file holds now
Validated(skip_validation, r) ==
    [raised |-> ShouldRaise(skip_validation, r.errors),
     errors |-> r.errors,
     cells |-> r.cells]

validate_cells(parsed_cells, skip_validation) ==
    Validated(skip_validation, ValidateLoop(parsed_cells, 1, <<>>, <<>>))

(***************************************************************************)
(* Python dicts keep insertion order: a dict is a sequence of <<key,       *)
(* value>> pairs with distinct keys.                                       *)
(***************************************************************************)
DictKeys(d) == {d[i][1] : i \in 1..Len(d)}

DictHas(d, k) == \E i \in 1..Len(d) : d[i][1] = k

DictGet(d, k) == d[CHOOSE i \in 1..Len(d) : d[i][1] = k][2]

\* d[k] = v: an existing key keeps its place
DictPut(d, k, v) ==
    IF DictHas(d, k)
    THEN [i \in 1..Len(d) |-> IF d[i][1] = k THEN <<k, v>> ELSE d[i]]
    ELSE Append(d, <<k, v>>)

\* {key(x): x for x in xs}
RECURSIVE DictOf(_, _)
DictOf(pairs, acc) ==
    IF pairs = <<>> THEN acc
    ELSE DictOf(Tail(pairs), DictPut(acc, Head(pairs)[1], Head(pairs)[2]))

(***************************************************************************)
(* manager.py: BackendRegistry and the backends                            *)
(*                                                                         *)
(* A backend object is [id, backend_name, connection_string, connected].   *)
(* The engine behind it is the environment: a connect, execute, close or   *)
(* parquet write may fail.  An oracle [at, what] says which call of the    *)
(* operation at hand fails: the call of kind `what` made for the at-th     *)
(* element the operation works on (at = 0: none).                          *)
(***************************************************************************)
_backends == {S_duckdb, S_bigquery}

\* BackendRegistry._backends, the names registered: those of the two built-in
\* backends, and what register(name) has added since
VARIABLE registered

NoFailure == [at |-> 0, what |-> "none"]

Fails(oracle, i, what) == oracle.at = i /\ oracle.what = what

Ev(kind, name, key, id, text) ==
    [kind |-> kind, name |-> name, key |-> key, id |-> id, text |-> text]

\* what backend.execute(text) returns: the rows of `text` on that connection
Result(backend, text) ==
    [isNone |-> FALSE, text |-> text, id |-> backend.id,
     backend_name |-> backend.backend_name,
     connection_string |-> backend.connection_string]

NoResult == [isNone |-> TRUE, text |-> "", id |-> 0,
             backend_name |-> <<>>, connection_string |-> <<>>]

(***************************************************************************)
(* executor.py: BaseExecutor                                               *)
(*                                                                         *)
(* The operators thread W = [conns, next_id, trace]: the connection cache, *)
(* the number of backend objects cached so far, and the calls made on      *)
(* backends, loggers and the file system during the operation.             *)
(* They return [W, ok, err, result].                                       *)
(***************************************************************************)
cache_key(backend_name, conn_string) == backend_name \o <<":">> \o conn_string

Raise(W, err) == [W |-> W, ok |-> FALSE, err |-> err, result |-> NoResult]

Return(W, result) == [W |-> W, ok |-> TRUE, err |-> "none", result |-> result]

Emit(W, ev) == [W EXCEPT !.trace = Append(@, ev)]

\* a lookup that connects a new backend whatever the cache holds
_get_or_create_backend_uncached(W, backend_name, conn_string, name, i, oracle) ==
    IF backend_name \notin _backends
    THEN Raise(W, "NotRegistered")
    ELSE IF Fails(oracle, i, "connect")
    THEN Raise(Emit(W, Ev("connect", name, cache_key(backend_name, conn_string),
                          W.next_id + 1, "")), "ConnectError")
    ELSE Return([Emit(W, Ev("connect", name, cache_key(backend_name, conn_string),
                            W.next_id + 1, ""))
                    EXCEPT !.conns = DictPut(@, cache_key(backend_name, conn_string),
                                             [id |-> W.next_id + 1,
                                              backend_name |-> backend_name,
                                              connection_string |-> conn_string,
                                              connected |-> TRUE]),
                           !.next_id = W.next_id + 1],
                [id |-> W.next_id + 1, backend_name |-> backend_name,
                 connection_string |-> conn_string, connected |-> TRUE])

\* BackendRegistry.get_backend: the class registered under the name, which
\* stands for it here, or ValueError("Backend '...' is not registered.")
get_backend(name) ==
    IF name \notin registered
    THEN [ok |-> FALSE, err |-> "NotRegistered", backend_class |-> <<>>]
    ELSE [ok |-> TRUE, err |-> "none", backend_class |-> name]

\* a lookup that asks no registry: any name gets a backend object
_get_or_create_backend_unregistered(W, backend_name, conn_string, name, i, oracle) ==
    IF DictHas(W.conns, cache_key(backend_name, conn_string))
    THEN Return(W, DictGet(W.conns, cache_key(backend_name, conn_string)))
    ELSE Return([Emit(W, Ev("connect", name, cache_key(backend_name, conn_string),
                            W.next_id + 1, ""))
                    EXCEPT !.conns = DictPut(@, cache_key(backend_name, conn_string),
                                             [id |-> W.next_id + 1,
                                              backend_name |-> backend_name,
                                              connection_string |-> conn_string,
                                              connected |-> TRUE]),
                           !.next_id = W.next_id + 1],
                [id |-> W.next_id + 1, backend_name |-> backend_name,
                 connection_string |-> conn_string, connected |-> TRUE])

\* _get_or_create_backend; `i` is the position the oracle counts
_get_or_create_backend(W, backend_name, conn_string, name, i, oracle) ==
    LET key == cache_key(backend_name, conn_string)
    IN  IF DictHas(W.conns, key)
        THEN Return(W, DictGet(W.conns, key))
        ELSE IF ~get_backend(backend_name).ok
        THEN Raise(W, get_backend(backend_name).err)
        ELSE LET inst == [id |-> W.next_id + 1,
                          backend_name |-> backend_name,
                          connection_string |-> conn_string,
                          connected |-> TRUE]
                 W1 == Emit(W, Ev("connect", name, key, inst.id, ""))
             IN  IF Fails(oracle, i, "connect")
                 THEN Raise(W1, "ConnectError")
                 ELSE Return([W1 EXCEPT !.conns = DictPut(@, key, inst),
                                        !.next_id = inst.id],
                             inst)

\* Backend.execute: a backend that is not connected raises RuntimeError
backend_execute(W, backend, name, text, i, oracle) ==
    LET key == cache_key(backend.backend_name, backend.connection_string)
        W1 == Emit(W, Ev("execute", name, key, backend.id, text))
    IN  IF ~backend.connected THEN Raise(W1, "NotConnected")
        ELSE IF Fails(oracle, i, "execute") THEN Raise(W1, "ExecuteError")
        ELSE Return(W1, Result(backend, text))

\* BaseExecutor.execute_cell, from the backend lookup on: b is what
\* _get_or_create_backend returned or raised
ExecuteOn(b, name, text, i, oracle) ==
    IF ~b.ok THEN b
    ELSE backend_execute(b.W, b.result, name, text, i, oracle)

\* BaseExecutor.execute_cell, from the cell found in the index on
ExecuteIndexed(W, cell, name, i, oracle) ==
    IF cell.validated_config.isNone THEN Raise(W, "AttributeError")
    ELSE IF cell.validated_config.input.isNone THEN Raise(W, "NoInput")
    ELSE ExecuteOn(_get_or_create_backend(W, cell.validated_config.input.backend_name,
                       cell.validated_config.input.connection_string, name, i, oracle),
                   name, cell.text, i, oracle)

\* BaseExecutor.execute_cell
base_execute_cell(W, cells_by_name, name, i, oracle) ==
    IF ~DictHas(cells_by_name, name)
    THEN Raise(W, "NotFound")
    ELSE ExecuteIndexed(W, DictGet(cells_by_name, name), name, i, oracle)

\* get_cell_config, the same through every link: None for an unknown name
get_cell_config(cells_by_name, name) ==
    IF DictHas(cells_by_name, name)
    THEN DictGet(cells_by_name, name).validated_config
    ELSE NoneConfig

(***************************************************************************)
(* executor.py: the decorators.  A chain is the sequence of decorator      *)
(* kinds, innermost first: "L" LoggingDecorator, "O" OutputDecorator.      *)
(* Link 0 is the base, link k the k-th decorator.                          *)
(***************************************************************************)
S_parquet == <<".", "p", "a", "r", "q", "u", "e", "t">>

\* output_path / f"{cell_name}.parquet": the directory, a separator, the name
\* of the cell as one component, the extension
ParquetPath(output_dir, cell_name) == output_dir \o <<"/">> \o <<cell_name>> \o S_parquet

\* OutputDecorator._write_parquet, after the mkdir: result.write_parquet(file).
\*   "noattr"  the result has no write_parquet: the attribute lookup raises
\*             AttributeError, nothing is called
\*   "attr"    write_parquet is called and raises AttributeError itself
\*   "write"   write_parquet is called and raises another exception
\* `except AttributeError` logs a warning and raises nothing; any other
\* exception is logged and raised.
WriteResult(W, name, output, k, i, oracle) ==
    IF Fails(oracle, i, "noattr")
    THEN Return(Emit(W, Ev("warn", name, output, k, "")), NoResult)
    ELSE IF Fails(oracle, i, "attr")
    THEN Return(Emit(Emit(W, Ev("write", name, ParquetPath(output, name), k, "")),
                     Ev("warn", name, output, k, "")), NoResult)
    ELSE IF Fails(oracle, i, "write")
    THEN Raise(Emit(W, Ev("write", name, ParquetPath(output, name), k, "")), "WriteError")
    ELSE Return(Emit(W, Ev("write", name, ParquetPath(output, name), k, "")), NoResult)

\* OutputDecorator._write_parquet of link k: output_path.mkdir(parents=True,
\* exist_ok=True) is outside the try, what it raises is raised
_write_parquet(W, name, output, k, i, oracle) ==
    IF Fails(oracle, i, "mkdir")
    THEN Raise(Emit(W, Ev("mkdir", name, output, k, "")), "MkdirError")
    ELSE WriteResult(Emit(W, Ev("mkdir", name, output, k, "")), name, output, k, i,
                     oracle)

\* LoggingDecorator.execute_cell after the wrapped call: log, re-raise or return
Logged(r, name, k) ==
    [r EXCEPT !.W = Emit(r.W, Ev(IF r.ok THEN "log_done" ELSE "log_fail",
                                 name, <<>>, k, ""))]

\* OutputDecorator.execute_cell after _write_parquet
Written(r, w) == IF w.ok THEN Return(w.W, r.result) ELSE w

\* an output decorator that writes whatever the wrapped call did
OutputAlways(r, config, name, k, i, oracle) ==
    IF ~config.isNone /\ ~config.output.isNone
    THEN Written(r, _write_parquet(r.W, name, config.output.path, k, i, oracle))
    ELSE r

\* OutputDecorator.execute_cell after the wrapped call
Output(r, config, name, k, i, oracle) ==
    IF ~r.ok THEN r
    ELSE IF ~config.isNone /\ ~config.output.isNone
    THEN Written(r, _write_parquet(r.W, name, config.output.path, k, i, oracle))
    ELSE r

\* execute_cell of link k
RECURSIVE execute_cell_at(_, _, _, _, _, _, _)
execute_cell_at(k, W, chain, cells_by_name, name, i, oracle) ==
    IF k = 0 THEN base_execute_cell(W, cells_by_name, name, i, oracle)
    ELSE IF chain[k] = "L"
    THEN Logged(execute_cell_at(k - 1, Emit(W, Ev("log_start", name, <<>>, k, "")),
                                chain, cells_by_name, name, i, oracle),
                name, k)
    ELSE Output(execute_cell_at(k - 1, W, chain, cells_by_name, name, i, oracle),
                get_cell_config(cells_by_name, name), name, k, i, oracle)

\* a factory whose decorator ends up next to the base, inside the links built
\* before it
WrapInside(executor, factory) == <<factory>> \o executor

\* executor = factory(executor): the decorator the factory returns wraps the
\* chain built so far and is its outermost link
Wrap(executor, factory) == Append(executor, factory)

\* for factory in self._decorator_factories: executor = factory(executor)
RECURSIVE BuildFrom(_, _, _)
BuildFrom(factories, i, executor) ==
    IF i > Len(factories) THEN executor
    ELSE BuildFrom(factories, i + 1, Wrap(executor, factories[i]))

\* ExecutorBuilder.build, after the validation: the chain around the base,
\* which is the empty chain
build(factories) == BuildFrom(factories, 1, <<>>)

\* {name: self.execute_cell(name) for name in cell_names} at link k, from the
\* i-th name on: the first exception leaves the comprehension
RECURSIVE execute_many_from(_, _, _, _, _, _, _, _)
ManyStep(k, chain, cells_by_name, names, i, oracle, acc, r) ==
    IF ~r.ok
    THEN [W |-> r.W, ok |-> FALSE, err |-> r.err, result |-> <<>>]
    ELSE execute_many_from(k, r.W, chain, cells_by_name, names, i + 1,
                           oracle, DictPut(acc, names[i], r.result))

execute_many_from(k, W, chain, cells_by_name, names, i, oracle, acc) ==
    IF i > Len(names)
    THEN [W |-> W, ok |-> TRUE, err |-> "none", result |-> acc]
    ELSE ManyStep(k, chain, cells_by_name, names, i, oracle, acc,
                  execute_cell_at(k, W, chain, cells_by_name, names[i], i, oracle))

\* a decorator that hands the batch to the link it wraps
execute_many_delegating(k, W, chain, cells_by_name, names, oracle) ==
    execute_many_from(0, W, chain, cells_by_name, names, 1, oracle, <<>>)

\* execute_many of link k (BaseExecutor for k = 0, ExecutorDecorator otherwise)
execute_many_at(k, W, chain, cells_by_name, names, oracle) ==
    execute_many_from(k, W, chain, cells_by_name, names, 1, oracle, <<>>)

\* BaseExecutor.close: backend.close() on every cached backend in cache order,
\* then clear.  A close that raises leaves the loop, and the cache as it is;
\* close() of a backend that is not connected does nothing.
RECURSIVE close_from(_, _, _)
close_from(W, i, oracle) ==
    IF i > Len(W.conns)
    THEN Return([W EXCEPT !.conns = <<>>], NoResult)
    ELSE IF W.conns[i][2].connected /\ Fails(oracle, i, "close")
    THEN Raise(Emit(W, Ev("close", "", W.conns[i][1], W.conns[i][2].id, "")),
               "CloseError")
    ELSE close_from([Emit(W, Ev("close", "", W.conns[i][1], W.conns[i][2].id, ""))
                        EXCEPT !.conns[i][2].connected = FALSE],
                    i + 1, oracle)

\* close() of link k: a decorator hands it to the link it wraps
RECURSIVE close_at(_, _, _)
close_at(k, W, oracle) ==
    IF k = 0 THEN close_from(W, 1, oracle) ELSE close_at(k - 1, W, oracle)

(***************************************************************************)
(* Raw configs the documents of the model use                              *)
(***************************************************************************)
CS_a_ddb  == <<"a", ".", "d", "d", "b">>
CS_x_xyz  == <<"x", ".", "x", "y", "z">>
P_out     == <<"o", "u", "t">>

Cfg_ddb     == [input |-> StrInput(CS_a_ddb), output |-> NoOutput]
Cfg_ddb_out == [input |-> StrInput(CS_a_ddb), output |-> StrOutput(P_out)]
Cfg_mem     == [input |-> StrInput(S_memory), output |-> NoOutput]
Cfg_dict    == [input |-> Dict1Input(S_duckdb, CS_a_ddb), output |-> NoOutput]
Cfg_none    == [input |-> NoInput, output |-> NoOutput]
Cfg_bad     == [input |-> StrInput(CS_x_xyz), output |-> NoOutput]
Cfg_dictN   == [input |-> DictNInput, output |-> NoOutput]
Cfg_other   == [input |-> OtherInput, output |-> NoOutput]
Cfg_badout  == [input |-> StrInput(CS_a_ddb), output |-> OtherOutput]
Cfg_two     == [input |-> ResolvedInput(S_duckdb, <<>>, FALSE, FALSE), output |-> NoOutput]
Cfg_three   == [input |-> ResolvedInput(S_duckdb, <<>>, FALSE, FALSE), output |-> OtherOutput]
Cfg_full    == [input |-> ResolvedInput(S_duckdb, CS_a_ddb, TRUE, TRUE), output |-> NoOutput]
Cfg_dictX   == [input |-> Dict1Input(CS_x_xyz, CS_a_ddb), output |-> NoOutput]

(***************************************************************************)
(* The validation pass on its own: a document and a mode are drawn, and    *)
(* validate_cells is applied to them.                                      *)
(***************************************************************************)
MaxValCells == 3

ValNames == {"q1", "q2"}

ValConfigs == {Cfg_ddb, Cfg_none, Cfg_bad, Cfg_badout, Cfg_two, Cfg_full, Cfg_dictX,
               Cfg_dictN, Cfg_other}

ValCells == [cell_name : ValNames, text : {"A"}, config : ValConfigs]

ValDocs == SeqsUpTo(ValCells, MaxValCells)

(***************************************************************************)
(* The documents the executor is built from and refreshed with             *)
(***************************************************************************)
MaxDecorators == 2

MaxBatch == 2

MaxBackends == 2

ExecNames == {"q1", "q2"}

\* q1 with two texts and two connections, q2 on q1's first connection, a cell
\* without input and a cell whose input resolves to no backend
E_q1A == [cell_name |-> "q1", text |-> "A", config |-> Cfg_ddb_out]
E_q1B == [cell_name |-> "q1", text |-> "B", config |-> Cfg_mem]
E_q2A == [cell_name |-> "q2", text |-> "A", config |-> Cfg_ddb]
E_q2N == [cell_name |-> "q2", text |-> "B", config |-> Cfg_none]
E_q1X == [cell_name |-> "q1", text |-> "A", config |-> Cfg_bad]
E_q2U == [cell_name |-> "q2", text |-> "A", config |-> Cfg_dictX]

ExecCells == {E_q1A, E_q1B, E_q2A, E_q2N, E_q1X, E_q2U}

\* the empty file, single cells, two cells on one connection and on two, a
\* name used twice, a file with a cell that does not validate, and a file
\* with a cell whose explicit backend is not registered
ExecDocs ==
    {<<>>, <<E_q1A>>, <<E_q2N>>, <<E_q1A, E_q2A>>, <<E_q1B, E_q2A>>,
     <<E_q1A, E_q1B>>, <<E_q2A, E_q1X>>, <<E_q1A, E_q2U>>}

Chains == SeqsUpTo({"L", "O"}, MaxDecorators)

Batches == SeqsUpTo(ExecNames, MaxBatch)

Oracles(n) ==
    {NoFailure} \cup [at : 1..n, what : {"connect", "execute", "mkdir", "write", "noattr", "attr",
                                        "close"}]

(***************************************************************************)
(* watcher.py: QsqlFileEventHandler                                        *)
(***************************************************************************)
\* {cell["cell_name"]: cell["text"] for cell in self._file.parsed_cells}
CurrentCells(parsed_cells) ==
    DictOf([i \in 1..Len(parsed_cells) |->
               <<parsed_cells[i].cell_name, parsed_cells[i].text>>], <<>>)

\* the loop over everything the file holds, whatever previous_cells says
RECURSIVE ChangedAll(_, _, _, _)
ChangedAll(previous_cells, current_cells, i, changed_cells) ==
    IF i > Len(current_cells) THEN changed_cells
    ELSE ChangedAll(previous_cells, current_cells, i + 1,
                    Append(changed_cells, current_cells[i][1]))

\* for cell_name, cell_text in current_cells.items(), from the i-th item on
RECURSIVE Changed(_, _, _, _)
Changed(previous_cells, current_cells, i, changed_cells) ==
    IF i > Len(current_cells) THEN changed_cells
    ELSE IF ~DictHas(previous_cells, current_cells[i][1])
    THEN Changed(previous_cells, current_cells, i + 1,
                 Append(changed_cells, current_cells[i][1]))
    ELSE IF DictGet(previous_cells, current_cells[i][1]) # current_cells[i][2]
    THEN Changed(previous_cells, current_cells, i + 1,
                 Append(changed_cells, current_cells[i][1]))
    ELSE Changed(previous_cells, current_cells, i + 1, changed_cells)

\* for cell_name in self.previous_cells: the names printed as removed
Removed(previous_cells, current_cells) ==
    SelectSeq([i \in 1..Len(previous_cells) |-> previous_cells[i][1]],
              LAMBDA name : ~DictHas(current_cells, name))

\* a handler that compares the file with nothing: every cell is new to it
DetectedForgetful(previous_cells, current_cells) ==
    [changed_cells |-> Changed(<<>>, current_cells, 1, <<>>),
     removed |-> Removed(previous_cells, current_cells),
     previous_cells |-> current_cells]

\* _detect_changed_cells with current_cells already read from the file: the
\* list it returns, the names it reports as removed, the new previous_cells
Detected(previous_cells, current_cells) ==
    [changed_cells |-> Changed(previous_cells, current_cells, 1, <<>>),
     removed |-> Removed(previous_cells, current_cells),
     previous_cells |-> current_cells]

_detect_changed_cells(previous_cells, parsed_cells) ==
    Detected(previous_cells, CurrentCells(parsed_cells))

\* if current_time - self.last_modified[self.file_path] < 1: return.
\* The clock counts half seconds; last_modified is -1 while the dict is empty.
TicksPerSecond == 2

\* a window that still holds a notification one full second later
DebouncedInclusive(current_time, last_modified) ==
    last_modified >= 0 /\ current_time - last_modified <= TicksPerSecond

Debounced(current_time, last_modified) ==
    last_modified >= 0 /\ current_time - last_modified < TicksPerSecond

\* _build_executor: with_logging() is registered before with_output()
WatcherChain(enable_logging, enable_output) ==
    (IF enable_logging THEN <<"L">> ELSE <<>>) \o (IF enable_output THEN <<"O">> ELSE <<>>)

(***************************************************************************)
(* The documents the watched file holds over time                          *)
(***************************************************************************)
MaxTime == 3

W_q1A == [cell_name |-> "q1", text |-> "A", config |-> Cfg_ddb]
W_q1B == [cell_name |-> "q1", text |-> "B", config |-> Cfg_ddb]
W_q2A == [cell_name |-> "q2", text |-> "A", config |-> Cfg_ddb_out]
W_q2X == [cell_name |-> "q2", text |-> "B", config |-> Cfg_bad]

\* q1 with the text "A" under another header: the header names another
\* database and an output directory
W_q1A_h == [cell_name |-> "q1", text |-> "A",
            config |-> [input |-> StrInput(S_memory), output |-> StrOutput(P_out)]]

\* and under a header whose input no resolver matches
W_q1A_x == [cell_name |-> "q1", text |-> "A", config |-> Cfg_bad]

\* q1 alone with either text, q1 and q2, q2 alone, q1 twice, a q2 whose input
\* resolves to no backend, and the empty file
WatchDocs ==
    {<<>>, <<W_q1A>>, <<W_q1B>>, <<W_q1A, W_q2A>>, <<W_q1B, W_q2A>>, <<W_q2A>>,
     <<W_q1A, W_q1B>>, <<W_q1A, W_q2X>>, <<W_q1A_h>>,
     <<W_q1A_x>>}

(***************************************************************************)
(* QsqlFile: a document is the character sequence the file holds           *)
(***************************************************************************)
S_dashes == <<"-", "-">>

S_name == <<"n", "a", "m", "e", ":">>

\* the characters \s matches, of those the documents below are written in
IsSpace(c) == c \in {" ", "\t", "\n", "\r"}

HasAt(s, p, w) == p + Len(w) - 1 <= Len(s) /\ SubSeq(s, p, p + Len(w) - 1) = w

\* the least and the greatest number of a set, 0 for the empty set
FirstOf0(numbers) ==
    IF numbers = {} THEN 0 ELSE CHOOSE x \in numbers : \A y \in numbers : x <= y

LastOf0(numbers) ==
    IF numbers = {} THEN 0 ELSE CHOOSE x \in numbers : \A y \in numbers : x >= y

\* the first position from p on that holds no whitespace, Len(s) + 1 if none
SkipSpace(s, p) ==
    IF p > Len(s) THEN p
    ELSE FirstOf0({q \in p..(Len(s) + 1) : q > Len(s) \/ ~IsSpace(s[q])})

\* the first position from p on that holds whitespace, Len(s) + 1 if none
SkipWord(s, p) ==
    IF p > Len(s) THEN p
    ELSE FirstOf0({q \in p..(Len(s) + 1) : q > Len(s) \/ IsSpace(s[q])})

\* the positions where a line end of content begins: "\n", "\r" or "\r\n"
LineEnds(content) ==
    {i \in 1..Len(content) :
        /\ content[i] \in {"\n", "\r"}
        /\ ~(content[i] = "\n" /\ i > 1 /\ content[i - 1] = "\r")}

\* the position after the line end that begins at i
AfterLineEnd(content, i) ==
    IF content[i] = "\r" /\ i < Len(content) /\ content[i + 1] = "\n" THEN i + 2 ELSE i + 1

\* the k-th number of a set, from the least
Nth(numbers, k) == CHOOSE x \in numbers : Cardinality({y \in numbers : y < x}) = k - 1

\* where the k-th line starts, given the sorted line ends
LineStart(content, ends, k) ==
    IF k = 1 THEN 1 ELSE AfterLineEnd(content, Nth(ends, k - 1))

\* str.splitlines(): a line ends at "\n", "\r" or "\r\n"; what follows the
\* last line end is a line only when it is not empty
SplitLines(content, ends, n) ==
    [k \in 1..(IF LineStart(content, ends, n + 1) <= Len(content) THEN n + 1 ELSE n) |->
        SubSeq(content, LineStart(content, ends, k),
               IF k <= n THEN Nth(ends, k) - 1 ELSE Len(content))]

SplitLinesOf(content, ends) == SplitLines(content, ends, Cardinality(ends))

splitlines(content) == SplitLinesOf(content, LineEnds(content))

Enumerate(texts) == [k \in 1..Len(texts) |-> <<k - 1, texts[k]>>]

\* QsqlFile.lines: (line number, line text), numbered from 0
lines(content) == Enumerate(splitlines(content))

\* "\n".join(texts)
RECURSIVE JoinFrom(_, _, _)
JoinFrom(texts, i, acc) ==
    IF i > Len(texts) THEN acc
    ELSE JoinFrom(texts, i + 1, IF i = 1 THEN texts[i] ELSE acc \o <<"\n">> \o texts[i])

Join(texts) == JoinFrom(texts, 1, <<>>)

NoMatch == [matched |-> FALSE, group |-> <<>>]

\* (\S+)\s*? with the group starting at r: the whole word at r
GroupAt(s, r) ==
    IF r > Len(s) THEN NoMatch
    ELSE [matched |-> TRUE, group |-> SubSeq(s, r, SkipWord(s, r) - 1)]

\* name:\s*?(\S+) at q
NameAt(s, q) ==
    IF HasAt(s, q, S_name) THEN GroupAt(s, SkipSpace(s, q + Len(S_name))) ELSE NoMatch

\* --\s*?name:\s*?(\S+)\s*? matched at p
PatternAt(s, p) ==
    IF HasAt(s, p, S_dashes) THEN NameAt(s, SkipSpace(s, p + Len(S_dashes))) ELSE NoMatch

\* pattern.search(line_text): the leftmost match
SearchAt(s, p) == IF p = 0 THEN NoMatch ELSE PatternAt(s, p)

search(line_text) ==
    SearchAt(line_text, FirstOf0({p \in 1..Len(line_text) : PatternAt(line_text, p).matched}))

TextsOf(ls, first, last_line) == [k \in 1..(last_line - first) |-> ls[first + k][2]]

cell_dict(ls, line_number, last_line_number, match) ==
    [cell_name |-> match.group,
     cell_start |-> line_number,
     cell_end |-> last_line_number - 1,
     text |-> Join(TextsOf(ls, line_number, last_line_number))]

Reverse(seq) == [k \in 1..Len(seq) |-> seq[Len(seq) + 1 - k]]

\* for line_number, line_text in reversed(lines), from the i-th pair down
RECURSIVE BlocksFrom(_, _, _, _)
\* a scan that never moves last_line_number: every block runs to the last line
BlockStepToEnd(ls, i, last_line_number, blocks, match) ==
    IF match.matched
    THEN BlocksFrom(ls, i - 1, last_line_number,
                    Append(blocks, cell_dict(ls, ls[i][1], last_line_number, match)))
    ELSE BlocksFrom(ls, i - 1, last_line_number, blocks)

BlockStep(ls, i, last_line_number, blocks, match) ==
    IF match.matched
    THEN BlocksFrom(ls, i - 1, ls[i][1],
                    Append(blocks, cell_dict(ls, ls[i][1], last_line_number, match)))
    ELSE BlocksFrom(ls, i - 1, last_line_number, blocks)

BlocksFrom(ls, i, last_line_number, blocks) ==
    IF i = 0 THEN blocks
    ELSE BlockStep(ls, i, last_line_number, blocks, search(ls[i][2]))

BlocksOf(ls) == Reverse(BlocksFrom(ls, Len(ls), Len(ls), <<>>))

\* QsqlFile.cell_blocks
cell_blocks(content) == BlocksOf(lines(content))

\* a header that runs through the first marker line
HeaderThroughMarker(content, blocks) ==
    IF blocks = <<>> THEN content
    ELSE Join(TextsOf(lines(content), 0, blocks[1].cell_start + 1))

HeaderOf(content, blocks) ==
    IF blocks = <<>> THEN content
    ELSE Join(TextsOf(lines(content), 0, blocks[1].cell_start))

\* QsqlFile.header
header(content) == HeaderOf(content, cell_blocks(content))

(***************************************************************************)
(* parsers: KeyValueParser, DictLikeParser and the merge of their results  *)
(***************************************************************************)
NoPair == [matched |-> FALSE, key |-> <<>>, value |-> <<>>, end |-> 0]

Pair(key, value, end) == [matched |-> TRUE, key |-> key, value |-> value, end |-> end]

\* the last ":" of s in lo..hi, 0 if none
LastColon(s, lo, hi) == LastOf0({k \in lo..hi : s[k] = ":"})

\* (\S+):\s*?(\S+) on the word s[q..e-1], the key ending before the colon at
\* k: the greedy key gives way to an earlier colon when nothing follows k
RECURSIVE KeyValueWord(_, _, _, _)
KeyValueWord(s, q, e, k) ==
    IF k = 0 THEN NoPair
    ELSE IF k < e - 1 THEN Pair(SubSeq(s, q, k - 1), SubSeq(s, k + 1, e - 1), e)
    ELSE IF SkipSpace(s, e) <= Len(s)
         THEN Pair(SubSeq(s, q, k - 1),
                   SubSeq(s, SkipSpace(s, e), SkipWord(s, SkipSpace(s, e)) - 1),
                   SkipWord(s, SkipSpace(s, e)))
    ELSE KeyValueWord(s, q, e, LastColon(s, q + 1, k - 1))

KeyValueFrom(s, q, e) == KeyValueWord(s, q, e, LastColon(s, q + 1, e - 1))

\* --\s*?(\S+):\s*?(\S+)\s*? matched at p
KeyValueAt(s, p) ==
    IF HasAt(s, p, S_dashes) /\ SkipSpace(s, p + 2) <= Len(s)
    THEN KeyValueFrom(s, SkipSpace(s, p + 2), SkipWord(s, SkipSpace(s, p + 2)))
    ELSE NoPair

\* the first position from p on where w starts, 0 if none
Find(s, w, p) == FirstOf0({q \in p..Len(s) : HasAt(s, q, w)})

\* for key, value in pattern.findall(data): result[key] = value; a match
\* starts at a "--", and the search goes on after the match
RECURSIVE KeyValueFind(_, _, _)
KeyValueTake(s, p, result, m) ==
    IF m.matched THEN KeyValueFind(s, m.end, DictPut(result, m.key, m.value))
    ELSE KeyValueFind(s, p + 1, result)

KeyValueNext(s, result, p) ==
    IF p = 0 THEN result ELSE KeyValueTake(s, p, result, KeyValueAt(s, p))

KeyValueFind(s, p, result) == KeyValueNext(s, result, Find(s, S_dashes, p))

\* KeyValueParser.parse
KeyValueParse(data) == KeyValueFind(data, 1, <<>>)

S_open == <<"/", "*">>

S_close == <<"*", "/">>

\* the last position up to p that holds no whitespace, 0 if none
LastWord(s, p) == LastOf0({q \in 1..p : ~IsSpace(s[q])})

\* str.strip()
StripSpace(s) == SubSeq(s, SkipSpace(s, 1), LastWord(s, Len(s)))

\* the first ":" of l from p on that ends a YAML key (followed by a space or
\* by the end of the line), 0 if none
KeyEnd(l, p) ==
    FirstOf0({q \in p..Len(l) : l[q] = ":" /\ (q = Len(l) \/ l[q + 1] = " ")})

\* one line "key: word" of a block mapping
YamlEntryAt(l, k) ==
    IF k > 1 /\ k < Len(l) /\ SkipWord(l, 1) > k
       /\ StripSpace(SubSeq(l, k + 1, Len(l))) # <<>>
       /\ SkipWord(l, SkipSpace(l, k + 1)) > Len(l)
    THEN Pair(SubSeq(l, 1, k - 1), SubSeq(l, SkipSpace(l, k + 1), Len(l)), 0)
    ELSE NoPair

YamlEntry(l) == YamlEntryAt(l, KeyEnd(l, 1))

\* yaml.safe_load on the documents used here: a block mapping of unindented
\* "key: word" lines loads as that mapping with string values; a single
\* plain word loads as a string; nothing else is given to it
YamlEntries(ls) == [k \in 1..Len(ls) |-> YamlEntry(StripSpace(ls[k]))]

YamlDict(entries) ==
    [isdict |-> entries # <<>> /\ \A k \in 1..Len(entries) : entries[k].matched,
     items |-> DictOf([k \in 1..Len(entries) |-> <<entries[k].key, entries[k].value>>],
                      <<>>)]

safe_load(text) == YamlDict(YamlEntries(splitlines(text)))

\* for match in pattern.findall(data) with pattern /\*(.*?)\*/: the text
\* between a "/*" and the first "*/" after it; dicts update the result
RECURSIVE DictLikeFind(_, _, _)
DictLikeLoaded(s, next, result, parsed) ==
    DictLikeFind(s, next, IF parsed.isdict THEN DictOf(parsed.items, result) ELSE result)

DictLikeClose(s, p, result, c) ==
    IF c = 0 THEN result
    ELSE DictLikeLoaded(s, c + 2, result, safe_load(StripSpace(SubSeq(s, p + 2, c - 1))))

DictLikeOpen(s, result, p) ==
    IF p = 0 THEN result ELSE DictLikeClose(s, p, result, Find(s, S_close, p + 2))

DictLikeFind(s, from, result) == DictLikeOpen(s, result, Find(s, S_open, from))

\* DictLikeParser.parse
DictLikeParse(data) == DictLikeFind(data, 1, <<>>)

\* parser.parse(data) for the two parser classes
parse(parser, data) ==
    IF parser = "key_value" THEN KeyValueParse(data) ELSE DictLikeParse(data)

\* ParserRegistry._parsers in registration order
_parsers == <<"key_value", "dict_like">>

\* a loop in which a key keeps the value of the first parser that has it
RECURSIVE ParseAllFirstWins(_, _, _, _)
ParseAllFirstWins(parsers, data, i, config) ==
    IF i > Len(parsers) THEN config
    ELSE ParseAllFirstWins(parsers, data, i + 1, DictOf(config, parse(parsers[i], data)))

\* for parser in self.parsers: config.update(parser.parse(data))
RECURSIVE ParseAll(_, _, _, _)
ParseAll(parsers, data, i, config) ==
    IF i > Len(parsers) THEN config
    ELSE ParseAll(parsers, data, i + 1, DictOf(parse(parsers[i], data), config))

\* QsqlFile.parsed_header
parsed_header(content, parsers) == ParseAll(parsers, header(content), 1, <<>>)

\* a merge in which the header overrides the cell
ParsedCellHeaderWins(cell_block, header_config, parsed_config) ==
    [cell_name |-> cell_block.cell_name,
     cell_start |-> cell_block.cell_start,
     cell_end |-> cell_block.cell_end,
     text |-> cell_block.text,
     config |-> DictOf(header_config, parsed_config)]

\* {**cell_block, "config": {**self.parsed_header, **parsed_config}}
ParsedCell(cell_block, header_config, parsed_config) ==
    [cell_name |-> cell_block.cell_name,
     cell_start |-> cell_block.cell_start,
     cell_end |-> cell_block.cell_end,
     text |-> cell_block.text,
     config |-> DictOf(parsed_config, header_config)]

ParsedBlocks(blocks, header_config, parsers) ==
    [k \in 1..Len(blocks) |->
        ParsedCell(blocks[k], header_config, ParseAll(parsers, blocks[k].text, 1, <<>>))]

\* QsqlFile.parsed_cells
parsed_cells(content, parsers) ==
    ParsedBlocks(cell_blocks(content), parsed_header(content, parsers), parsers)

VARIABLES
    val_in,             \* validate_cells: the document and the mode it is called with
    val_out,            \* validate_cells: what the call did
    phase,              \* "new": no executor yet; "built": build() returned one
    _decorator_factories, \* ExecutorBuilder._decorator_factories of the builder
                        \* that built the executor, in registration order
    chain,              \* the decorators around the base, innermost first
    _skip_validation,   \* BaseExecutor._skip_validation
    _validated_cells,   \* BaseExecutor._validated_cells
    _cells_by_name,     \* BaseExecutor._cells_by_name
    _backend_conns,     \* BaseExecutor._backend_conns
    next_id,            \* backend objects cached so far
    last,               \* the last call on the chain: arguments, outcome, calls made
    connect_tried,      \* the cache keys connect was called for since the last close()
    disk,               \* the document the watched file holds
    now,                \* time.time(), in half seconds
    wpc,                \* where the handler is: "off", "init", "idle", "refresh",
                        \* "detect", "exec", or "failed" when __init__ raised
    last_modified,      \* self.last_modified[self.file_path], -1 while unset
    previous_cells,     \* self.previous_cells
    changed_cells,      \* the list _detect_changed_cells returned last
    todo,               \* the position of on_modified's loop in changed_cells
    ran,                \* the cells on_modified has executed since it was entered
    handled,            \* how the last on_modified ended: "none", "returned",
                        \* "ignored", "debounced", "raised"
    quiet,              \* how many times the handler has started to look at the
                        \* file, in __init__ or in an accepted on_modified, since
                        \* the file was last saved: 0, 1, or 2 for two and more
    accepted_cells,     \* the texts by name of the document the handler read
                        \* when it was constructed or last refreshed its executor
    file_in,            \* QsqlFile: the content of the file and the parsers given
    file_out,           \* QsqlFile: the properties read so far
    conn_in,            \* ConnectionResolver.resolve: the connection string
    conn_out,           \* ConnectionResolver.resolve: what the call did
    backend,            \* a Backend object on its own: its class and fields
    engine,             \* the engine behind it: the handles it gave and has open
    bcall,              \* the last call on the backend object and its outcome
    fs,                 \* the backing file of a QsqlFile: missing, readable, denied
    qf,                 \* the QsqlFile: where __init__ or a property access is
    seen,               \* what each property returned when it was first read
    read_out            \* how the last __init__ or property access ended

fileVars == <<file_in, file_out>>

resolveVars == <<conn_in, conn_out>>

backendVars == <<backend, engine, bcall>>

accessVars == <<fs, qf, seen, read_out>>

registryVars == <<registered>>

pureVars == <<val_in, val_out, fileVars, resolveVars, backendVars, accessVars,
              registryVars>>

execVars == <<phase, _decorator_factories, chain, _skip_validation, _validated_cells, _cells_by_name,
              _backend_conns, next_id, last, connect_tried>>

histVars == <<quiet, accepted_cells>>

watchVars == <<disk, now, wpc, last_modified, previous_cells, changed_cells, todo,
               ran, handled, histVars>>

vars == <<pureVars, execVars, watchVars>>

NotCalled == [called |-> FALSE, raised |-> FALSE, errors |-> <<>>, cells |-> <<>>]

ValOut(r) == [called |-> TRUE, raised |-> r.raised, errors |-> r.errors, cells |-> r.cells]

NotRead == [read |-> {}, cell_blocks |-> <<>>, header |-> <<>>, parsed_header |-> <<>>,
            parsed_cells |-> <<>>]

NotResolved == [called |-> FALSE, ok |-> FALSE, backend_name |-> <<>>, message |-> <<>>]

ValIdle ==
    /\ val_in = [doc |-> <<>>, skip_validation |-> FALSE]
    /\ val_out = NotCalled

FileIdle ==
    /\ file_in = [content |-> <<>>, parsers |-> <<>>]
    /\ file_out = NotRead

ResolveIdle ==
    /\ conn_in = <<>>
    /\ conn_out = NotResolved

\* an optional string field: None, or the string
NoneStr == [isNone |-> TRUE, s |-> <<>>]

SomeStr(s) == [isNone |-> FALSE, s |-> s]

NoBackendCall == [op |-> "none", ok |-> TRUE, err |-> "none", result |-> NoResult]

BackendIdle ==
    /\ backend = [class |-> <<>>, conn |-> 0, project |-> NoneStr, location |-> NoneStr]
    /\ engine = [opened |-> 0, open |-> {}]
    /\ bcall = NoBackendCall

NoAccess == [op |-> "none", ok |-> TRUE, err |-> "none", value |-> <<>>,
             attempts |-> 0, slept |-> <<>>]

RegistryIdle == registered = _backends

AccessIdle ==
    /\ fs = [state |-> "missing", content |-> <<>>]
    /\ qf = [pc |-> "none", property |-> "none", attempt |-> 0, slept |-> <<>>]
    /\ seen = <<>>
    /\ read_out = NoAccess

NoCall == [op |-> "none", names |-> <<>>, doc |-> <<>>, ok |-> TRUE,
           err |-> "none", report |-> <<>>, result |-> <<>>, trace |-> <<>>]

ExecIdle ==
    /\ phase = "new"
    /\ _decorator_factories = <<>>
    /\ chain = <<>>
    /\ _skip_validation = FALSE
    /\ _validated_cells = <<>>
    /\ _cells_by_name = <<>>
    /\ _backend_conns = <<>>
    /\ next_id = 0
    /\ last = NoCall
    /\ connect_tried = {}

WatchIdle ==
    /\ disk = <<>>
    /\ now = 0
    /\ wpc = "off"
    /\ last_modified = -1
    /\ previous_cells = <<>>
    /\ changed_cells = <<>>
    /\ todo = 0
    /\ ran = <<>>
    /\ handled = "none"
    /\ quiet = 0
    /\ accepted_cells = <<>>

InitValidate ==
    /\ val_in \in [doc : ValDocs, skip_validation : BOOLEAN]
    /\ val_out = NotCalled
    /\ FileIdle
    /\ ResolveIdle
    /\ BackendIdle
    /\ AccessIdle
    /\ RegistryIdle
    /\ ExecIdle
    /\ WatchIdle

CallValidate ==
    /\ ~val_out.called
    /\ val_out' = ValOut(validate_cells(ParsedCells(val_in.doc), val_in.skip_validation))
    /\ UNCHANGED <<val_in, fileVars, resolveVars, backendVars, accessVars, registryVars, execVars,
                   watchVars>>

NextValidate == CallValidate

SpecValidate == InitValidate /\ [][NextValidate]_vars

(***************************************************************************)
(* The executor: build, then any sequence of calls on the chain            *)
(***************************************************************************)
\* {cell["cell_name"]: cell for cell in validated_cells}
IndexOf(validated_cells) ==
    DictOf([i \in 1..Len(validated_cells) |->
               <<validated_cells[i].cell_name, validated_cells[i]>>], <<>>)

\* the cache keys connect was called for during an operation
ConnectKeys(trace) == {trace[i].key : i \in {j \in 1..Len(trace) : trace[j].kind = "connect"}}

World == [conns |-> _backend_conns, next_id |-> next_id, trace |-> <<>>]

Init ==
    /\ ValIdle
    /\ FileIdle
    /\ ResolveIdle
    /\ BackendIdle
    /\ AccessIdle
    /\ RegistryIdle
    /\ ExecIdle
    /\ WatchIdle

\* what a validation pass leaves in `last`
Validating(op, doc, r) ==
    [NoCall EXCEPT !.op = op, !.doc = doc, !.ok = ~r.raised,
                   !.err = IF r.raised THEN "QsqlConfigError" ELSE "none",
                   !.report = IF r.raised THEN r.errors ELSE <<>>]

\* BaseExecutor.__init__ with r = validate_cells(file, skip), then the decorators
Built(doc, skip, ch, r) ==
    /\ last' = Validating("build", doc, r)
    /\ IF r.raised
       THEN UNCHANGED <<phase, _decorator_factories, chain, _skip_validation, _validated_cells, _cells_by_name>>
       ELSE /\ phase' = "built"
            /\ _decorator_factories' = ch
            /\ chain' = build(ch)
            /\ _skip_validation' = skip
            /\ _validated_cells' = r.cells
            /\ _cells_by_name' = IndexOf(r.cells)

\* ExecutorBuilder(file)[.with_logging()][.with_output()][.without_validation()].build()
Build ==
    /\ phase = "new"
    /\ last.op = "none"
    /\ \E doc \in ExecDocs, skip \in BOOLEAN, ch \in Chains :
          Built(doc, skip, ch, validate_cells(ParsedCells(doc), skip))
    /\ UNCHANGED <<pureVars, watchVars, _backend_conns, next_id, connect_tried>>

\* what a call leaves behind in the cache, the counters and `last`
Outcome(op, names, r, result) ==
    /\ _backend_conns' = r.W.conns
    /\ next_id' = r.W.next_id
    /\ next_id' <= MaxBackends
    /\ last' = [NoCall EXCEPT !.op = op, !.names = names,
                              !.ok = r.ok, !.err = r.err,
                              !.result = result, !.trace = r.W.trace]
    /\ connect_tried' = IF op = "close" THEN {}
                        ELSE connect_tried \cup ConnectKeys(r.W.trace)

Allowed(oracle) == oracle.what # "close"

\* the dict a caller of execute_cell(name) can make of what it returned
Single(name, r) == IF r.ok THEN <<<<name, r.result>>>> ELSE <<>>

Executed(name, r) == Outcome("execute_cell", <<name>>, r, Single(name, r))

\* executor.execute_cell(name) on the outermost link
ExecuteCell ==
    /\ phase = "built"
    /\ last.op = "none"
    /\ \E name \in ExecNames, oracle \in Oracles(1) :
          /\ Allowed(oracle)
          /\ Executed(name, execute_cell_at(Len(chain), World, chain, _cells_by_name,
                                            name, 1, oracle))
    /\ UNCHANGED <<pureVars, watchVars, phase, _decorator_factories, chain, _skip_validation, _validated_cells,
                   _cells_by_name>>

ExecutedMany(names, r) == Outcome("execute_many", names, r, r.result)

\* executor.execute_many(names) on the outermost link
ExecuteMany ==
    /\ phase = "built"
    /\ last.op = "none"
    /\ \E names \in Batches, oracle \in Oracles(MaxBatch) :
          /\ Allowed(oracle)
          /\ oracle.at <= Len(names)
          /\ ExecutedMany(names, execute_many_at(Len(chain), World, chain,
                                                 _cells_by_name, names, oracle))
    /\ UNCHANGED <<pureVars, watchVars, phase, _decorator_factories, chain, _skip_validation, _validated_cells,
                   _cells_by_name>>

\* a refresh that drops the connections along with the index
RefreshedReconnecting(doc, r) ==
    /\ last' = Validating("refresh", doc, r)
    /\ _validated_cells' = r.cells
    /\ _cells_by_name' = IndexOf(r.cells)
    /\ _backend_conns' = <<>>
    /\ UNCHANGED <<next_id, connect_tried>>

\* a refresh that keeps the index it had
RefreshedKeepingIndex(doc, r) ==
    /\ last' = Validating("refresh", doc, r)
    /\ _validated_cells' = r.cells
    /\ UNCHANGED <<_cells_by_name, _backend_conns, next_id, connect_tried>>

\* a refresh that indexes the cells it went through before the error is raised
RefreshedIndexingFirst(doc, r) ==
    /\ last' = Validating("refresh", doc, r)
    /\ _validated_cells' = r.cells
    /\ _cells_by_name' = IndexOf(r.cells)
    /\ UNCHANGED <<_backend_conns, next_id, connect_tried>>

\* BaseExecutor.refresh with r = validate_cells(new file, self._skip_validation):
\* the two assignments, which a QsqlConfigError does not reach; nothing else
\* of the executor is written
Refreshed(doc, r) ==
    /\ last' = Validating("refresh", doc, r)
    /\ IF r.raised
       THEN UNCHANGED <<_validated_cells, _cells_by_name>>
       ELSE /\ _validated_cells' = r.cells
            /\ _cells_by_name' = IndexOf(r.cells)
    /\ UNCHANGED <<_backend_conns, next_id, connect_tried>>

\* executor.refresh(QsqlFile(path)) on the outermost link, with the document
\* the file holds: every decorator hands the call to the link it wraps
Refresh ==
    /\ phase = "built"
    /\ last.op = "none"
    /\ \E doc \in ExecDocs :
          Refreshed(doc, validate_cells(ParsedCells(doc), _skip_validation))
    /\ UNCHANGED <<pureVars, watchVars, phase, _decorator_factories, chain, _skip_validation>>

Closed(r) == Outcome("close", <<>>, r, <<>>)

\* executor.close(), on any link: every decorator hands it to the link it wraps
Close ==
    /\ phase = "built"
    /\ last.op = "none"
    /\ \E k \in 0..Len(chain), oracle \in Oracles(Len(_backend_conns)) :
          /\ oracle # NoFailure => oracle.what = "close"
          /\ Closed(close_at(k, World, oracle))
    /\ UNCHANGED <<pureVars, watchVars, phase, _decorator_factories, chain, _skip_validation, _validated_cells,
                   _cells_by_name>>

\* the caller takes the outcome of the call and goes on
TakeResult ==
    /\ last.op # "none"
    /\ last' = NoCall
    /\ UNCHANGED <<pureVars, watchVars, phase, _decorator_factories, chain, _skip_validation, _validated_cells,
                   _cells_by_name, _backend_conns, next_id, connect_tried>>

Next == Build \/ ExecuteCell \/ ExecuteMany \/ Refresh \/ Close \/ TakeResult

Spec == Init /\ [][Next]_vars

(***************************************************************************)
(* The registry and the connection cache (specification SpecCache): a      *)
(* backend is registered under a name of the caller's choice, and an       *)
(* executor runs cells that name their backend and connection string       *)
(***************************************************************************)
S_duckdb_ro == S_duckdb \o <<":", "r", "o">>

CS_ro_a_ddb == <<"r", "o", ":">> \o CS_a_ddb

\* the names a caller registers a backend under
PluginNames == {S_duckdb_ro}

\* {"duckdb": "a.ddb"}, {"duckdb": "ro:a.ddb"} and {"duckdb:ro": "a.ddb"}
Cfg_plain == [input |-> Dict1Input(S_duckdb, CS_a_ddb), output |-> NoOutput]

Cfg_colon == [input |-> Dict1Input(S_duckdb, CS_ro_a_ddb), output |-> NoOutput]

Cfg_plugin == [input |-> Dict1Input(S_duckdb_ro, CS_a_ddb), output |-> NoOutput]

CacheConfigs == {Cfg_plain, Cfg_colon, Cfg_plugin}

\* q1 and q2, each with any of the three inputs
CacheDocs ==
    {<<[cell_name |-> "q1", text |-> "A", config |-> c1],
       [cell_name |-> "q2", text |-> "B", config |-> c2]>> : c1, c2 \in CacheConfigs}

\* @BackendRegistry.register(name) on a backend class
Register ==
    /\ \E name \in PluginNames :
          /\ name \notin registered
          /\ registered' = registered \cup {name}
    /\ UNCHANGED <<val_in, val_out, fileVars, resolveVars, backendVars, accessVars,
                   execVars, watchVars>>

\* ExecutorBuilder(file)[.with_logging()][.with_output()].build()
BuildCache ==
    /\ phase = "new"
    /\ last.op = "none"
    /\ \E doc \in CacheDocs, ch \in Chains :
          Built(doc, FALSE, ch, validate_cells(ParsedCells(doc), FALSE))
    /\ UNCHANGED <<pureVars, watchVars, _backend_conns, next_id, connect_tried>>

NextCache == Register \/ BuildCache \/ ExecuteCell \/ Close \/ TakeResult

SpecCache == Init /\ [][NextCache]_vars

(***************************************************************************)
(* The watcher: the file is rewritten, time passes, notifications arrive;  *)
(* on_modified runs in the one thread that delivers them, a step per read  *)
(* of the file and per executed cell.                                      *)
(***************************************************************************)
InitWatcher ==
    /\ ValIdle
    /\ FileIdle
    /\ ResolveIdle
    /\ BackendIdle
    /\ AccessIdle
    /\ RegistryIdle
    /\ ExecIdle
    /\ disk \in WatchDocs
    /\ now = 0
    /\ wpc = "off"
    /\ last_modified = -1
    /\ previous_cells = <<>>
    /\ changed_cells = <<>>
    /\ todo = 0
    /\ ran = <<>>
    /\ handled = "none"
    /\ quiet = 0
    /\ accepted_cells = <<>>

\* somebody saves the file
Write ==
    /\ \E doc \in WatchDocs : doc # disk /\ disk' = doc
    /\ quiet' = 0
    /\ UNCHANGED <<pureVars, execVars, now, wpc, last_modified, previous_cells,
                   changed_cells, todo, ran, handled, accepted_cells>>

\* half a second passes; the clock is read on entry of on_modified only
Tick ==
    /\ wpc \in {"off", "idle"}
    /\ now < MaxTime
    /\ now' = now + 1
    /\ UNCHANGED <<pureVars, execVars, disk, wpc, last_modified, previous_cells,
                   changed_cells, todo, ran, handled, histVars>>

\* __init__ up to self._executor = self._build_executor(), r the strict
\* validation of the file as it is now
Constructed(ch, r) ==
    /\ IF r.raised
       THEN /\ wpc' = "failed"
            /\ UNCHANGED <<phase, _decorator_factories, chain, _validated_cells, _cells_by_name>>
       ELSE /\ wpc' = "init"
            /\ phase' = "built"
            /\ _decorator_factories' = ch
            /\ chain' = build(ch)
            /\ _validated_cells' = r.cells
            /\ _cells_by_name' = IndexOf(r.cells)
    /\ quiet' = 1
    /\ UNCHANGED <<pureVars, _skip_validation, _backend_conns, next_id, last,
                   connect_tried, disk, now, last_modified, previous_cells,
                   changed_cells, todo, ran, handled, accepted_cells>>

Construct ==
    /\ wpc = "off"
    /\ \E enable_logging, enable_output \in BOOLEAN :
          Constructed(WatcherChain(enable_logging, enable_output),
                      validate_cells(ParsedCells(disk), FALSE))

\* _init_cell_state, the last statement of __init__: reads the file again
\* (previous_cells is empty, so each name is set to its last text)
InitCellState ==
    /\ wpc = "init"
    /\ previous_cells' = CurrentCells(ParsedCells(disk))
    /\ accepted_cells' = CurrentCells(ParsedCells(disk))
    /\ wpc' = "idle"
    /\ UNCHANGED <<pureVars, execVars, disk, now, last_modified, changed_cells, todo,
                   ran, handled, quiet>>

\* str(self.file_path), and the paths notifications arrive for: the watched
\* file, the same file spelled another way, and another file of the directory
WatchedPath == "q.qsql"

EventPaths == {"q.qsql", "./q.qsql", "r.qsql"}

\* event.src_path != str(self.file_path), negated
SamePath(src_path, file_path) == src_path = file_path

\* on_modified for a path that is not the watched one: returns
Ignore ==
    /\ wpc = "idle"
    /\ \E src_path \in EventPaths : ~SamePath(src_path, WatchedPath)
    /\ handled' = "ignored"
    /\ UNCHANGED <<pureVars, execVars, disk, now, wpc, last_modified, previous_cells,
                   changed_cells, todo, ran, histVars>>

\* a rejected notification that restarts the window
RejectStamping ==
    /\ wpc = "idle"
    /\ Debounced(now, last_modified)
    /\ handled' = "debounced"
    /\ last_modified' = now
    /\ UNCHANGED <<pureVars, execVars, disk, now, wpc, previous_cells,
                   changed_cells, todo, ran, histVars>>

\* on_modified for the watched path, inside the debounce window: returns
Reject ==
    /\ wpc = "idle"
    /\ \E src_path \in EventPaths : SamePath(src_path, WatchedPath)
    /\ Debounced(now, last_modified)
    /\ handled' = "debounced"
    /\ UNCHANGED <<pureVars, execVars, disk, now, wpc, last_modified, previous_cells,
                   changed_cells, todo, ran, histVars>>

\* on_modified for the watched path, accepted: stamps the time and goes on
Accept ==
    /\ wpc = "idle"
    /\ \E src_path \in EventPaths : SamePath(src_path, WatchedPath)
    /\ ~Debounced(now, last_modified)
    /\ last_modified' = now
    /\ wpc' = "refresh"
    /\ ran' = <<>>
    /\ handled' = "none"
    /\ quiet' = IF quiet < 2 THEN quiet + 1 ELSE 2
    /\ UNCHANGED <<pureVars, execVars, disk, now, previous_cells, changed_cells, todo,
                   accepted_cells>>

\* _refresh_executor with r the validation of the file read now; the
\* QsqlConfigError of a strict refresh leaves on_modified
RefreshedExecutor(r) ==
    /\ IF r.raised
       THEN /\ wpc' = "idle"
            /\ handled' = "raised"
            /\ accepted_cells' = CurrentCells(r.cells)
            /\ UNCHANGED <<_validated_cells, _cells_by_name>>
       ELSE /\ wpc' = "detect"
            /\ handled' = handled
            /\ accepted_cells' = accepted_cells
            /\ _validated_cells' = r.cells
            /\ _cells_by_name' = IndexOf(r.cells)
    /\ UNCHANGED <<pureVars, phase, _decorator_factories, chain, _skip_validation, _backend_conns, next_id,
                   last, connect_tried, disk, now, last_modified, previous_cells,
                   changed_cells, todo, ran, quiet>>

RefreshExecutor ==
    /\ wpc = "refresh"
    /\ RefreshedExecutor(validate_cells(ParsedCells(disk), _skip_validation))

\* changed_cells = self._detect_changed_cells(), d what it made of the file
\* read now; an empty list ends on_modified
DetectedChanged(d) ==
    /\ changed_cells' = d.changed_cells
    /\ previous_cells' = d.previous_cells
    /\ todo' = 1
    /\ wpc' = IF d.changed_cells = <<>> THEN "idle" ELSE "exec"
    /\ handled' = IF d.changed_cells = <<>> THEN "returned" ELSE handled
    /\ accepted_cells' = CurrentCells(_validated_cells)
    /\ UNCHANGED <<pureVars, execVars, disk, now, last_modified, ran, quiet>>

DetectChangedCells ==
    /\ wpc = "detect"
    /\ DetectedChanged(_detect_changed_cells(previous_cells, ParsedCells(disk)))

\* the text execute_cell finds for a name, "" when it finds none
TextOf(index, name) == IF DictHas(index, name) THEN DictGet(index, name).text ELSE ""

\* a loop without the try: the exception of execute_cell leaves on_modified
ExecutedChangedUnguarded(name, r) ==
    /\ _backend_conns' = r.W.conns
    /\ next_id' = r.W.next_id
    /\ connect_tried' = connect_tried \cup ConnectKeys(r.W.trace)
    /\ ran' = Append(ran, [name |-> name, ok |-> r.ok, err |-> r.err,
                           text |-> TextOf(_cells_by_name, name)])
    /\ todo' = todo + 1
    /\ wpc' = IF todo = Len(changed_cells) \/ ~r.ok THEN "idle" ELSE "exec"
    /\ handled' = IF ~r.ok THEN "raised"
                  ELSE IF todo = Len(changed_cells) THEN "returned" ELSE handled
    /\ UNCHANGED <<pureVars, phase, _decorator_factories, chain, _skip_validation, _validated_cells,
                   _cells_by_name, last, disk, now, last_modified, previous_cells,
                   changed_cells, histVars>>

\* one pass of for cell_name in changed_cells: try execute_cell, except print
ExecutedChanged(name, r) ==
    /\ _backend_conns' = r.W.conns
    /\ next_id' = r.W.next_id
    /\ connect_tried' = connect_tried \cup ConnectKeys(r.W.trace)
    /\ ran' = Append(ran, [name |-> name, ok |-> r.ok, err |-> r.err,
                           text |-> TextOf(_cells_by_name, name)])
    /\ todo' = todo + 1
    /\ wpc' = IF todo = Len(changed_cells) THEN "idle" ELSE "exec"
    /\ handled' = IF todo = Len(changed_cells) THEN "returned" ELSE handled
    /\ UNCHANGED <<pureVars, phase, _decorator_factories, chain, _skip_validation, _validated_cells,
                   _cells_by_name, last, disk, now, last_modified, previous_cells,
                   changed_cells, histVars>>

ExecuteChanged ==
    /\ wpc = "exec"
    /\ \E oracle \in Oracles(1) :
          /\ Allowed(oracle)
          /\ ExecutedChanged(changed_cells[todo],
                             execute_cell_at(Len(chain), World, chain, _cells_by_name,
                                             changed_cells[todo], 1, oracle))

NextWatcher ==
    \/ Write \/ Tick \/ Construct \/ InitCellState \/ Ignore \/ Reject \/ Accept
    \/ RefreshExecutor \/ DetectChangedCells \/ ExecuteChanged

SpecWatcher == InitWatcher /\ [][NextWatcher]_vars

(***************************************************************************)
(* QsqlFile on its own (specification SpecFile): the properties of one     *)
(* file, read in any order                                                 *)
(***************************************************************************)
L_q1 == <<"-", "-", " ", "n", "a", "m", "e", ":", " ", "q", "1">>

L_q2 == <<"-", "-", "n", "a", "m", "e", ":", "q", "2", " ", "x">>

L_sql == <<"s">>

L_empty == <<>>

L_inline == <<"s", " ", "-", "-", " ", "n", "a", "m", "e", ":", " ", "q", "1">>

FileLines == {L_q1, L_q2, L_sql, L_empty, L_inline}

MaxLines == 3

\* the file with these lines, each ended by nl, the last one if trailing
RECURSIVE ContentFrom(_, _, _, _, _)
ContentFrom(texts, nl, trailing, i, acc) ==
    IF i > Len(texts) THEN acc
    ELSE ContentFrom(texts, nl, trailing, i + 1,
                     acc \o texts[i] \o (IF i < Len(texts) \/ trailing THEN nl ELSE <<>>))

ContentOf(texts, nl, trailing) == ContentFrom(texts, nl, trailing, 1, <<>>)

LF == <<"\n">>

CRLF == <<"\r", "\n">>

LayoutDocs ==
    {ContentOf(texts, LF, trailing) : texts \in SeqsUpTo(FileLines, MaxLines),
                                     trailing \in BOOLEAN}
    \cup {ContentOf(texts, CRLF, TRUE) : texts \in SeqsUpTo({L_q1, L_sql}, MaxLines)}

\* lines that carry configuration, for the header (H_) and for a cell (C_)
H_kv_a == <<"-", "-", " ", "a", ":", " ", "1">>

H_kv_b == <<"-", "-", " ", "b", ":", " ", "h">>

H_dl_b == <<"/", "*", " ", "b", ":", " ", "y", " ", "*", "/">>

C_kv_b == <<"-", "-", " ", "b", ":", " ", "c">>

C_kv_c == <<"-", "-", " ", "c", ":", " ", "4">>

C_dl_b == <<"/", "*", " ", "b", ":", " ", "z", " ", "*", "/">>

C_dl_open == <<"/", "*">>

C_dl_c == <<"c", ":", " ", "w">>

C_dl_close == <<"*", "/">>

HeaderParts == {<<>>, <<H_kv_b>>, <<H_dl_b>>, <<H_kv_a, H_kv_b>>, <<H_kv_b, H_dl_b>>}

CellParts == {<<L_sql>>, <<C_kv_b>>, <<C_dl_b>>, <<C_kv_b, C_kv_c>>, <<C_kv_b, C_dl_b>>,
              <<C_kv_b, C_dl_open, C_dl_c, C_dl_close>>}

ConfigDocs ==
    {ContentOf(h \o <<L_q1>> \o c, LF, TRUE) : h \in HeaderParts, c \in CellParts}
    \cup {ContentOf(h \o <<L_q1>> \o c \o <<L_q2>> \o d, LF, TRUE) :
             h \in HeaderParts, c \in CellParts, d \in CellParts}

FileDocs == LayoutDocs \cup ConfigDocs

\* the parsers a QsqlFile is given: the registry's, or an injected list
ParserLists == {_parsers, <<"dict_like", "key_value">>, <<"dict_like">>}

InitFile ==
    /\ ValIdle
    /\ file_in \in [content : FileDocs, parsers : ParserLists]
    /\ file_out = NotRead
    /\ ResolveIdle
    /\ BackendIdle
    /\ AccessIdle
    /\ RegistryIdle
    /\ ExecIdle
    /\ WatchIdle

ReadAs(property, value) ==
    /\ property \notin file_out.read
    /\ file_out' = [file_out EXCEPT ![property] = value, !.read = @ \cup {property}]
    /\ UNCHANGED <<val_in, val_out, file_in, resolveVars, backendVars, accessVars, registryVars,
                   execVars, watchVars>>

ReadCellBlocks == ReadAs("cell_blocks", cell_blocks(file_in.content))

ReadHeader == ReadAs("header", header(file_in.content))

ReadParsedHeader == ReadAs("parsed_header", parsed_header(file_in.content, file_in.parsers))

ReadParsedCells == ReadAs("parsed_cells", parsed_cells(file_in.content, file_in.parsers))

NextFile == ReadCellBlocks \/ ReadHeader \/ ReadParsedHeader \/ ReadParsedCells

SpecFile == InitFile /\ [][NextFile]_vars

(***************************************************************************)
(* ConnectionResolver.resolve on its own (specification SpecResolve)       *)
(***************************************************************************)
ConnPrefixes == {<<>>, <<" ">>, S_bqscheme, <<"B", "i", "g", "Q", "u", "e", "r", "y", ":", "/", "/">>}

ConnStems == {<<>>, <<"a">>, <<"p", "/", "l">>}

ConnSuffixes ==
    {<<>>, S_ddb, <<".", "D", "D", "B">>, S_dotduck, <<".", "D", "u", "c", "k", "D", "B">>, S_memory, <<":", "M", "E", "M", "O", "R", "Y", ":">>, <<".", "x", "y", "z">>,
     S_ddb \o <<" ">>, S_ddb \o <<"x">>}

ConnStrings ==
    {prefix \o stem \o suffix :
        prefix \in ConnPrefixes, stem \in ConnStems, suffix \in ConnSuffixes}

InitResolve ==
    /\ ValIdle
    /\ FileIdle
    /\ conn_in \in ConnStrings
    /\ conn_out = NotResolved
    /\ BackendIdle
    /\ AccessIdle
    /\ RegistryIdle
    /\ ExecIdle
    /\ WatchIdle

\* resolve(connection_string): the backend name, or the ValueError
Resolved(connection_string, r) ==
    [called |-> TRUE, ok |-> r.ok, backend_name |-> r.backend_name,
     message |-> IF r.ok THEN <<>> ELSE ResolveMessage(connection_string)]

CallResolve ==
    /\ ~conn_out.called
    /\ conn_out' = Resolved(conn_in, Resolve(conn_in))
    /\ UNCHANGED <<val_in, val_out, fileVars, conn_in, backendVars, accessVars, registryVars,
                   execVars, watchVars>>

NextResolve == CallResolve

SpecResolve == InitResolve /\ [][NextResolve]_vars

(***************************************************************************)
(* manager.py: a backend object on its own.                                *)
(*                                                                         *)
(* backend is [class, conn, project, location]: conn is self.conn of a     *)
(* DuckDBBackend and self.client of a BigQueryBackend, 0 for None and      *)
(* otherwise the handle the engine gave; project and location are those of *)
(* a BigQueryBackend.  engine is [opened, open]: the number of handles     *)
(* given so far and the handles that are open.  Every call on the engine   *)
(* may raise (`fails`).  The operators return [backend, engine, ok, err,   *)
(* result].                                                                *)
(***************************************************************************)
DuckDBBackend == [class |-> S_duckdb, conn |-> 0, project |-> NoneStr, location |-> NoneStr]

BigQueryBackend ==
    [class |-> S_bigquery, conn |-> 0, project |-> NoneStr, location |-> NoneStr]

BackendRaise(b, e, err) ==
    [backend |-> b, engine |-> e, ok |-> FALSE, err |-> err, result |-> NoResult]

BackendReturn(b, e, result) ==
    [backend |-> b, engine |-> e, ok |-> TRUE, err |-> "none", result |-> result]

\* duckdb.connect(...) / bigquery.Client(...): a new open handle
Opened(e) == [opened |-> e.opened + 1, open |-> e.open \cup {e.opened + 1}]

\* conn = connection_string.strip(), without the bigquery:// prefix if present
BigQueryTarget(conn) ==
    IF StartsWith(Lower(conn), S_bqscheme)
    THEN SubSeq(conn, Len(S_bqscheme) + 1, Len(conn))
    ELSE conn

Slashes(conn) == {i \in 1..Len(conn) : conn[i] = "/"}

\* parts = conn.split("/"): parts[0]
Project(conn, slashes) ==
    IF slashes = {} THEN conn ELSE SubSeq(conn, 1, FirstOf0(slashes) - 1)

\* parts[1] if len(parts) > 1 else None
Location(conn, slashes) ==
    IF slashes = {} THEN NoneStr
    ELSE SomeStr(SubSeq(conn, FirstOf0(slashes) + 1,
                        IF Cardinality(slashes) > 1 THEN Nth(slashes, 2) - 1
                        ELSE Len(conn)))

\* BigQueryBackend.connect: project and location are set before the client
\* is made, and stay set when bigquery.Client raises
BigQueryConnect(b, e, conn, fails) ==
    IF fails
    THEN BackendRaise([b EXCEPT !.project = SomeStr(Project(conn, Slashes(conn))),
                                !.location = Location(conn, Slashes(conn))],
                      e, "ConnectError")
    ELSE BackendReturn([b EXCEPT !.project = SomeStr(Project(conn, Slashes(conn))),
                                 !.location = Location(conn, Slashes(conn)),
                                 !.conn = e.opened + 1],
                       Opened(e), NoResult)

\* DuckDBBackend.connect: self.conn = duckdb.connect(connection_string)
DuckDBConnect(b, e, connection_string, fails) ==
    IF fails THEN BackendRaise(b, e, "ConnectError")
    ELSE BackendReturn([b EXCEPT !.conn = e.opened + 1], Opened(e), NoResult)

\* Backend.connect of the class of b; a handle b held before stays open
connect(b, e, connection_string, fails) ==
    IF b.class = S_duckdb
    THEN DuckDBConnect(b, e, connection_string, fails)
    ELSE BigQueryConnect(b, e, BigQueryTarget(Strip(connection_string)), fails)

\* the rows a handle gives for a query
Rows(b, query) ==
    [isNone |-> FALSE, text |-> query, id |-> b.conn,
     backend_name |-> b.class, connection_string |-> <<>>]

\* an execute that gives no rows when there is no connection
execute_silently(b, e, query, fails) ==
    IF b.conn = 0 THEN BackendReturn(b, e, NoResult)
    ELSE IF fails THEN BackendRaise(b, e, "ExecuteError")
    ELSE BackendReturn(b, e, Rows(b, query))

\* DuckDBBackend.execute / BigQueryBackend.execute:
\* if self.conn is None: raise RuntimeError("Backend not connected. ...")
execute(b, e, query, fails) ==
    IF b.conn = 0 THEN BackendRaise(b, e, "RuntimeError")
    ELSE IF fails THEN BackendRaise(b, e, "ExecuteError")
    ELSE BackendReturn(b, e, Rows(b, query))

\* DuckDBBackend.close / BigQueryBackend.close: if self.conn: close it and
\* set the fields to None; a close of the engine that raises leaves them set
close(b, e, fails) ==
    IF b.conn = 0 THEN BackendReturn(b, e, NoResult)
    ELSE IF fails THEN BackendRaise(b, e, "CloseError")
    ELSE BackendReturn([b EXCEPT !.conn = 0,
                                 !.project = NoneStr,
                                 !.location = NoneStr],
                       [e EXCEPT !.open = @ \ {b.conn}], NoResult)

MaxHandles == 3

BackendConnStrings ==
    {CS_a_ddb, S_memory, <<"p">>, S_bqscheme \o <<"p", "/", "l">>,
     <<" ", "B", "i", "g", "Q", "u", "e", "r", "y", ":", "/", "/", "p", "/", "l", "/", "x", " ">>}

InitBackend ==
    /\ ValIdle
    /\ FileIdle
    /\ ResolveIdle
    /\ backend \in {DuckDBBackend, BigQueryBackend}
    /\ engine = [opened |-> 0, open |-> {}]
    /\ bcall = NoBackendCall
    /\ AccessIdle
    /\ RegistryIdle
    /\ ExecIdle
    /\ WatchIdle

BackendCalled(op, r) ==
    /\ backend' = r.backend
    /\ engine' = r.engine
    /\ bcall' = [op |-> op, ok |-> r.ok, err |-> r.err, result |-> r.result]
    /\ UNCHANGED <<val_in, val_out, fileVars, resolveVars, accessVars, registryVars, execVars,
                   watchVars>>

BackendConnect ==
    /\ engine.opened < MaxHandles
    /\ \E connection_string \in BackendConnStrings, fails \in BOOLEAN :
          BackendCalled("connect", connect(backend, engine, connection_string, fails))

BackendExecute ==
    \E query \in {"A", "B"}, fails \in BOOLEAN :
        BackendCalled("execute", execute(backend, engine, query, fails))

BackendClose ==
    \E fails \in BOOLEAN : BackendCalled("close", close(backend, engine, fails))

NextBackend == BackendConnect \/ BackendExecute \/ BackendClose

SpecBackend == InitBackend /\ [][NextBackend]_vars

(***************************************************************************)
(* file.py: a QsqlFile and its backing file.                               *)
(*                                                                         *)
(* fs is the file at file_path: [state, content] with state "missing",     *)
(* "ok" or "denied" (it exists and cannot be read).  Anybody may rewrite   *)
(* it at any time, between two attempts of a retry loop too.               *)
(* qf is [pc, property, attempt, slept]: pc is "none" before __init__,     *)
(* "validating" in _validate_file_exists, "ready" between accesses,        *)
(* "reading" in _read_with_retry and "failed" when __init__ raised;        *)
(* attempt is the loop variable and slept the delays of the time.sleep     *)
(* calls made, in units of base_delay.                                     *)
(***************************************************************************)
\* _validate_file_exists(max_retries=2)
ValidateMaxRetries == 2

\* _read_with_retry(max_retries=3)
ReadMaxRetries == 3

\* a loop that waits the base delay before every retry
BackoffConstant(attempt) == 1

\* base_delay * (2**attempt), in units of base_delay
Backoff(attempt) == 2 ^ attempt

\* what a property makes of the content it has read
PropertyOf(property, content) ==
    CASE property = "content" -> content
      [] property = "lines" -> lines(content)
      [] OTHER -> cell_blocks(content)

\* the properties accessed here; the others are made of lines in the same way
AccessProperties == {"content", "lines"}

D_one == ContentOf(<<L_q1, L_sql>>, LF, TRUE)

D_two == ContentOf(<<L_sql, L_q2>>, LF, FALSE)

AccessFiles ==
    {[state |-> "missing", content |-> <<>>],
     [state |-> "ok", content |-> D_one],
     [state |-> "ok", content |-> D_two],
     [state |-> "denied", content |-> D_one]}

InitAccess ==
    /\ ValIdle
    /\ FileIdle
    /\ ResolveIdle
    /\ BackendIdle
    /\ fs \in AccessFiles
    /\ qf = [pc |-> "none", property |-> "none", attempt |-> 0, slept |-> <<>>]
    /\ seen = <<>>
    /\ read_out = NoAccess
    /\ RegistryIdle
    /\ ExecIdle
    /\ WatchIdle

otherVarsOfAccess == <<val_in, val_out, fileVars, resolveVars, backendVars, registryVars,
                       execVars,
                       watchVars>>

\* the file is removed, replaced or made unreadable
Rewrite ==
    /\ fs' \in AccessFiles \ {fs}
    /\ UNCHANGED <<qf, seen, read_out, otherVarsOfAccess>>

\* an attempt found the file missing and another one follows: time.sleep
Sleep ==
    qf' = [qf EXCEPT !.attempt = @ + 1, !.slept = Append(@, Backoff(qf.attempt))]

\* the operation ends
Ended(pc, op, ok, err, value) ==
    /\ qf' = [qf EXCEPT !.pc = pc]
    /\ read_out' = [op |-> op, ok |-> ok, err |-> err, value |-> value,
                    attempts |-> qf.attempt + 1, slept |-> qf.slept]

\* QsqlFile(file_path, validate_on_init=...): __init__ up to the loop of
\* _validate_file_exists, or to its end when validate_on_init is False
NewQsqlFile ==
    /\ qf.pc = "none"
    /\ \E validate_on_init \in BOOLEAN :
          qf' = [qf EXCEPT !.pc = IF validate_on_init THEN "validating" ELSE "ready"]
    /\ UNCHANGED <<fs, seen, read_out, otherVarsOfAccess>>

\* one pass of the loop of _validate_file_exists
ExistsAttempt ==
    /\ qf.pc = "validating"
    /\ IF fs.state # "missing"
       THEN Ended("ready", "init", TRUE, "none", <<>>)
       ELSE IF qf.attempt < ValidateMaxRetries
       THEN Sleep /\ UNCHANGED read_out
       ELSE Ended("failed", "init", FALSE, "FileNotFoundError", <<>>)
    /\ UNCHANGED <<fs, seen, otherVarsOfAccess>>

\* a property is accessed: content, or one that reads content once
Access ==
    /\ qf.pc = "ready"
    /\ \E property \in AccessProperties :
          qf' = [pc |-> "reading", property |-> property, attempt |-> 0, slept |-> <<>>]
    /\ UNCHANGED <<fs, seen, read_out, otherVarsOfAccess>>

\* one pass of the loop of _read_with_retry: read_text returns, raises
\* PermissionError, which is raised at once, or raises FileNotFoundError
ReadAttempt ==
    /\ qf.pc = "reading"
    /\ IF fs.state = "ok"
       THEN /\ Ended("ready", qf.property, TRUE, "none",
                     PropertyOf(qf.property, fs.content))
            /\ seen' = IF DictHas(seen, qf.property) THEN seen
                       ELSE DictPut(seen, qf.property,
                                    PropertyOf(qf.property, fs.content))
       ELSE IF fs.state = "denied"
       THEN /\ Ended("ready", qf.property, FALSE, "PermissionError", <<>>)
            /\ UNCHANGED seen
       ELSE IF qf.attempt < ReadMaxRetries
       THEN Sleep /\ UNCHANGED <<read_out, seen>>
       ELSE /\ Ended("ready", qf.property, FALSE, "FileNotFoundError", <<>>)
            /\ UNCHANGED seen
    /\ UNCHANGED <<fs, otherVarsOfAccess>>

NextAccess == Rewrite \/ NewQsqlFile \/ ExistsAttempt \/ Access \/ ReadAttempt

SpecAccess == InitAccess /\ [][NextAccess]_vars

\* a pass of a retry loop that is due is made: time.sleep returns, and
\* exists() and read_text() return or raise
SpecAccessFair == SpecAccess /\ WF_vars(ExistsAttempt) /\ WF_vars(ReadAttempt)

(***************************************************************************)
(* Properties of validate_cells (specification SpecValidate)               *)
(***************************************************************************)
\* a cell whose config CellConfig rejects
Invalid(cell) == ~model_validate(cell.config).ok

\* a cell whose only defect is an input string no resolver matches
OnlyUnresolvable(cell) ==
    /\ cell.config.input.kind = "str"
    /\ ~Resolve(cell.config.input.a).ok
    /\ cell.config.output.kind # "other"

\* the report has an error of this cell
Reported(errors, cell) ==
    \E k \in 1..Len(errors) :
        /\ errors[k].cell_name = cell.cell_name
        /\ errors[k].cell_start_line = cell.cell_start

AllReported(cells, out) ==
    /\ Len(out.cells) = Len(cells)
    /\ \A i \in 1..Len(cells) : Invalid(cells[i]) <=> Reported(out.errors, cells[i])
    /\ \A j, k \in 1..Len(out.errors) :
          j < k => out.errors[j].cell_start_line <= out.errors[k].cell_start_line
    /\ (\A i \in 1..Len(cells) : OnlyUnresolvable(cells[i]))
          => /\ Len(out.errors) = Len(cells)
             /\ \A i \in 1..Len(cells) :
                   /\ out.errors[i].cell_name = cells[i].cell_name
                   /\ out.errors[i].cell_start_line = cells[i].cell_start

\* C1: validate_cells goes through every cell in document order whatever it
\* finds: the report has an error for a cell exactly when the cell is invalid,
\* the errors come in document order, and a document of k cells that each have
\* only an unresolvable input gives exactly k errors, the i-th with the name and
\* the start line of the i-th cell.
C1_EveryInvalidCellReported ==
    val_out.called => AllReported(ParsedCells(val_in.doc), val_out)

\* an invalid first cell, a valid second cell and an invalid third one, all seen
C1_Witness ==
    /\ val_out.called
    /\ Len(val_in.doc) = 3
    /\ Invalid(ParsedCells(val_in.doc)[1])
    /\ ~Invalid(ParsedCells(val_in.doc)[2])
    /\ OnlyUnresolvable(ParsedCells(val_in.doc)[3])
    /\ Reported(val_out.errors, ParsedCells(val_in.doc)[3])

StrictOutcome(cells, out) ==
    /\ out.raised <=> out.errors # <<>>
    /\ out.raised => \A i \in 1..Len(cells) :
                        Invalid(cells[i]) => Reported(out.errors, cells[i])

PermissiveOutcome(cells, out) ==
    /\ ~out.raised
    /\ Len(out.cells) = Len(cells)
    /\ \A i \in 1..Len(cells) :
          /\ out.cells[i].cell_name = cells[i].cell_name
          /\ out.cells[i].cell_start = cells[i].cell_start
          /\ out.cells[i].text = cells[i].text
          /\ out.cells[i].validated_config.isNone <=> Reported(out.errors, cells[i])

\* C2: in strict mode validate_cells raises QsqlConfigError exactly when an
\* error was collected, and the report then covers every invalid cell; in
\* permissive mode it never raises and returns one entry per cell, in document
\* order, with a null validated_config exactly for the cells that have an error.
C2_RaisesIffStrictAndErrors ==
    val_out.called =>
        IF val_in.skip_validation
        THEN PermissiveOutcome(ParsedCells(val_in.doc), val_out)
        ELSE StrictOutcome(ParsedCells(val_in.doc), val_out)

\* a permissive pass that collected errors and returned null and non-null configs
C2_Witness ==
    /\ val_out.called
    /\ val_in.skip_validation
    /\ val_out.errors # <<>>
    /\ ~val_out.raised
    /\ \E i, j \in 1..Len(val_out.cells) :
          /\ val_out.cells[i].validated_config.isNone
          /\ ~val_out.cells[j].validated_config.isNone

(***************************************************************************)
(* Properties of the executor (specification Spec)                         *)
(***************************************************************************)
\* a step in which the caller makes the call `op` on the chain
Calls(op) == last.op = "none" /\ last'.op = op

Executes == Calls("execute_cell") \/ Calls("execute_many")

\* the positions of the events of a kind in a trace
At(trace, kind) == {i \in 1..Len(trace) : trace[i].kind = kind}

\* the cache key of a validated cell
KeyOf(cell) ==
    cache_key(cell.validated_config.input.backend_name,
              cell.validated_config.input.connection_string)

\* C3 as stated: between two close() calls connect is called at most once for
\* a cache key, over any sequence of execute_cell, execute_many and refresh.
C3_ConnectAtMostOncePerKey ==
    [][Executes =>
          \A i \in At(last'.trace, "connect") :
              /\ last'.trace[i].key \notin connect_tried
              /\ \A j \in At(last'.trace, "connect") :
                    last'.trace[j].key = last'.trace[i].key => j = i]_vars

\* C3, amended: connect is called for a cache key only while no backend is
\* cached under it, and a backend once cached stays the backend of its key until
\* close(); so between two close() calls at most one connect per key succeeds,
\* cells with the same backend and connection string are executed by one
\* backend object, and a refresh brings no connect for a key that is cached.
C3_ConnectOnlyWhenNotCached ==
    [][Executes =>
          /\ \A i \in At(last'.trace, "connect") :
                ~DictHas(_backend_conns, last'.trace[i].key)
          /\ \A i \in 1..Len(_backend_conns) : _backend_conns'[i] = _backend_conns[i]
          /\ \A i \in At(last'.trace, "execute") :
                /\ DictHas(_backend_conns', last'.trace[i].key)
                /\ DictGet(_backend_conns', last'.trace[i].key).id = last'.trace[i].id]_vars

\* a batch of two cells on one connection: one connect, two executes on the
\* backend it made
C3_Witness ==
    /\ last.op = "execute_many"
    /\ last.ok
    /\ Len(last.names) = 2
    /\ last.names[1] # last.names[2]
    /\ Cardinality(At(last.trace, "connect")) = 1
    /\ Cardinality(At(last.trace, "execute")) = 2
    /\ \A i, j \in At(last.trace, "execute") : last.trace[i].id = last.trace[j].id

\* C4: refresh leaves the connection cache as it is: the same keys on the
\* same backend objects, in the same state; no backend is connected or closed,
\* whether or not a cell of the new snapshot uses its key.
C4_RefreshKeepsConnections ==
    [][Calls("refresh") =>
          /\ _backend_conns' = _backend_conns
          /\ next_id' = next_id
          /\ last'.trace = <<>>]_vars

\* a successful refresh after which a cached connection is used by no cell
C4_Witness ==
    /\ last.op = "refresh"
    /\ last.ok
    /\ \E i \in 1..Len(_backend_conns) :
          /\ _backend_conns[i][2].connected
          /\ \A j \in 1..Len(_validated_cells) :
                \/ _validated_cells[j].validated_config.isNone
                \/ _validated_cells[j].validated_config.input.isNone
                \/ KeyOf(_validated_cells[j]) # _backend_conns[i][1]

\* the names of a document, and the cell a name stands for: the last one of
\* that name
NamesOf(doc) == {doc[i].cell_name : i \in 1..Len(doc)}

LastNamed(doc, name) ==
    doc[CHOOSE i \in 1..Len(doc) :
            /\ doc[i].cell_name = name
            /\ \A j \in 1..Len(doc) : doc[j].cell_name = name => j <= i]

\* the index holds the cells of doc, and nothing else
IndexHolds(index, doc) ==
    /\ DictKeys(index) = NamesOf(doc)
    /\ \A name \in NamesOf(doc) :
          /\ DictGet(index, name).text = LastNamed(doc, name).text
          /\ DictGet(index, name).config
                = model_validate(LastNamed(doc, name).config).data

\* what execute_cell(name) on the outermost link does with the cells of doc
RunsOn(doc, name, r) ==
    IF name \notin NamesOf(doc)
    THEN ~r.ok /\ r.err = "NotFound"
    ELSE /\ r.err # "NotFound"
         /\ \A i \in At(r.W.trace, "execute") :
               r.W.trace[i].text = LastNamed(doc, name).text
         /\ r.ok => r.result.text = LastNamed(doc, name).text

\* C5: after a successful refresh through any chain the index of the base
\* holds exactly the cells of the new snapshot: execute_cell of a name the
\* snapshot does not have fails with not-found, a name it has is found, and a
\* cell is executed with the text the snapshot gives it.
C5_RefreshReplacesIndex ==
    (last.op = "refresh" /\ last.ok) =>
        /\ IndexHolds(_cells_by_name, last.doc)
        /\ \A name \in ExecNames :
              RunsOn(last.doc, name,
                     execute_cell_at(Len(chain), World, chain, _cells_by_name,
                                     name, 1, NoFailure))

\* through a decorator, q1 was executed with text "B" on a second connection
\* while q2 is gone from the index: the snapshot was replaced after the first
\* connection was made
C5_Witness ==
    /\ last.op = "execute_cell"
    /\ last.ok
    /\ chain # <<>>
    /\ last.names = <<"q1">>
    /\ DictGet(last.result, "q1").text = "B"
    /\ Len(_backend_conns) = 2
    /\ ~DictHas(_cells_by_name, "q2")

\* the cell index and the cache before a call of execute_cell(name), and what
\* the call returned and did
NotFoundCase(index, name) == ~DictHas(index, name)

NoInputCase(index, name) ==
    /\ DictHas(index, name)
    /\ \/ DictGet(index, name).validated_config.isNone
       \/ DictGet(index, name).validated_config.input.isNone

Untouched(conns, conns1, trace) ==
    /\ conns1 = conns
    /\ At(trace, "connect") = {}
    /\ At(trace, "execute") = {}

\* the backend of the cell executed its text: the result is that backend's,
\* or the failure is one of the backend or the output
Delegated(cell, conns1, call) ==
    /\ call.err \notin {"NotFound", "NoInput", "AttributeError"}
    /\ call.ok => /\ DictHas(conns1, KeyOf(cell))
                  /\ DictGet(call.result, cell.cell_name) =
                        Result(DictGet(conns1, KeyOf(cell)), cell.text)

\* C6 as stated: execute_cell(name) fails with not-found for a name that is
\* not in the index and with missing-input for a cell whose validated config
\* has no input, in both cases without connecting and with the cache as it
\* was; otherwise it gets or creates the connection of the cell and returns
\* what the backend's execute returns for the text of the cell.
C6_ExecuteCellCases ==
    [][Calls("execute_cell") =>
          CASE NotFoundCase(_cells_by_name, last'.names[1]) ->
                  /\ last'.err = "NotFound"
                  /\ Untouched(_backend_conns, _backend_conns', last'.trace)
            [] NoInputCase(_cells_by_name, last'.names[1]) ->
                  /\ last'.err = "NoInput"
                  /\ Untouched(_backend_conns, _backend_conns', last'.trace)
            [] OTHER ->
                  Delegated(DictGet(_cells_by_name, last'.names[1]),
                            _backend_conns', last')]_vars

\* a caller that calls execute_cell of link k for each name in turn, from the
\* i-th on, and collects what it returns by name; it stops at an exception
RECURSIVE EachInTurn(_, _, _, _, _, _, _, _)
EachNext(k, ch, cells_by_name, names, i, oracle, acc, r) ==
    IF ~r.ok
    THEN [W |-> r.W, ok |-> FALSE, err |-> r.err, result |-> <<>>]
    ELSE EachInTurn(k, r.W, ch, cells_by_name, names, i + 1, oracle,
                    DictPut(acc, names[i], r.result))

EachInTurn(k, W, ch, cells_by_name, names, i, oracle, acc) ==
    IF i > Len(names)
    THEN [W |-> W, ok |-> TRUE, err |-> "none", result |-> acc]
    ELSE EachNext(k, ch, cells_by_name, names, i, oracle, acc,
                  execute_cell_at(k, W, ch, cells_by_name, names[i], i, oracle))

SameOutcome(call, conns1, ref) ==
    /\ call.ok = ref.ok
    /\ call.err = ref.err
    /\ call.result = ref.result
    /\ call.trace = ref.W.trace
    /\ conns1 = ref.W.conns

\* the names of the events of a kind made by link k, in the order made
IsEvent(ev, kind, k) == ev.kind = kind /\ ev.id = k

NamesAt(trace, kind, k) ==
    [i \in 1..Len(SelectSeq(trace, LAMBDA ev : IsEvent(ev, kind, k))) |->
        SelectSeq(trace, LAMBDA ev : IsEvent(ev, kind, k))[i].name]

HasOutput(index, name) ==
    /\ DictHas(index, name)
    /\ ~DictGet(index, name).validated_config.isNone
    /\ ~DictGet(index, name).validated_config.output.isNone

\* every logging link logs each listed name once, in list order, and every
\* output link writes the listed names that have an output once each, in list
\* order
OncePerName(ch, index, names, trace) ==
    /\ \A k \in 1..Len(ch) :
          ch[k] = "L" => /\ NamesAt(trace, "log_start", k) = names
                         /\ NamesAt(trace, "log_done", k) = names
    /\ \A k \in 1..Len(ch) :
          ch[k] = "O" => NamesAt(trace, "mkdir", k)
                            = SelectSeq(names, LAMBDA name : HasOutput(index, name))

\* C7: execute_many(names) on the outermost link does what calling the
\* outermost link's execute_cell on each listed name in list order does: the
\* same calls on loggers, file system and backends in the same order, the same
\* cache, the same results by name; in a batch that returns, every decorator
\* has acted exactly once per listed name.
C7_ExecuteManyIsRepeatedExecuteCell ==
    [][Calls("execute_many") =>
          /\ \E oracle \in Oracles(MaxBatch) :
                /\ Allowed(oracle)
                /\ oracle.at <= Len(last'.names)
                /\ SameOutcome(last', _backend_conns',
                               EachInTurn(Len(chain), World, chain, _cells_by_name,
                                          last'.names, 1, oracle, <<>>))
          /\ last'.ok => OncePerName(chain, _cells_by_name, last'.names,
                                      last'.trace)]_vars

\* a batch of two names through a decorator that returned
C7_Witness ==
    /\ last.op = "execute_many"
    /\ last.ok
    /\ chain # <<>>
    /\ Len(last.names) = 2
    /\ Len(last.result) = 2
    /\ \/ Cardinality(At(last.trace, "log_done")) = 2
       \/ Cardinality(At(last.trace, "write")) = 1

\* a name execute_cell has a backend for
Executable(index, name) ==
    /\ DictHas(index, name)
    /\ ~DictGet(index, name).validated_config.isNone
    /\ ~DictGet(index, name).validated_config.input.isNone
    /\ DictGet(index, name).validated_config.input.backend_name \in _backends

\* a backend was connected or asked to execute for the name
Reached(trace, name) ==
    \E j \in 1..Len(trace) :
        trace[j].name = name /\ trace[j].kind \in {"connect", "execute"}

\* C8 as stated: when the backend fails to execute a cell of an execute_many
\* batch, the other listed cells are executed all the same.
C8_SiblingsStillExecuted ==
    (last.op = "execute_many" /\ last.err = "ExecuteError") =>
        \A i \in 1..Len(last.names) :
            Executable(_cells_by_name, last.names[i]) => Reached(last.trace, last.names[i])

\* the ids of the backends a cache holds, in cache order
IdsOf(conns) == [i \in 1..Len(conns) |-> conns[i][2].id]

ClosedIds(trace) ==
    [i \in 1..Len(SelectSeq(trace, LAMBDA ev : ev.kind = "close")) |->
        SelectSeq(trace, LAMBDA ev : ev.kind = "close")[i].id]

\* C9 as stated: close() on any link calls close once on every backend the
\* cache holds and leaves the cache empty; with an empty cache it closes
\* nothing and does not fail.
C9_CloseClosesAllAndClears ==
    [][Calls("close") =>
          /\ last'.ok
          /\ ClosedIds(last'.trace) = IdsOf(_backend_conns)
          /\ _backend_conns' = <<>>]_vars

(***************************************************************************)
(* Properties of the watcher (specification SpecWatcher)                   *)
(***************************************************************************)
\* the names of doc that previous does not have, and those it has with
\* another text
Added(previous, doc) == {name \in NamesOf(doc) : ~DictHas(previous, name)}

Modified(previous, doc) ==
    {name \in NamesOf(doc) :
        DictHas(previous, name) /\ DictGet(previous, name) # LastNamed(doc, name).text}

ExecuteSetIs(changed, previous, doc) ==
    /\ {changed[i] : i \in 1..Len(changed)} = Added(previous, doc) \cup Modified(previous, doc)
    /\ \A i, j \in 1..Len(changed) : changed[i] = changed[j] => i = j
    /\ \A i \in 1..Len(changed) :
          /\ changed[i] \in NamesOf(doc)
          /\ DictHas(previous, changed[i])
                => DictGet(previous, changed[i]) # LastNamed(doc, changed[i]).text

\* C10: the execute set of an accepted notification is exactly the names of
\* the document read by _detect_changed_cells that previous_cells did not have
\* or had with another text, each once; a name with the text it had, and a name
\* that is gone from the document, is not in it.
C10_ExecuteSetIsAddedAndChanged ==
    [][(wpc = "detect" /\ wpc' # "detect")
          => ExecuteSetIs(changed_cells', previous_cells, disk)]_vars

\* the handler is about to execute the one changed cell of a document of two
C10_Witness ==
    /\ wpc = "exec"
    /\ todo = 1
    /\ Len(changed_cells) = 1
    /\ Len(previous_cells) = 2
    /\ Len(disk) = 2

\* the steps in which on_modified is entered for the watched path
Accepts == wpc = "idle" /\ wpc' = "refresh"

Rejects == wpc = "idle" /\ wpc' = "idle" /\ handled' = "debounced" /\ now' = now /\ disk' = disk

\* C11: a notification for the watched path is accepted exactly when none
\* was accepted before or at least one second has passed since the last
\* accepted one; a rejected one leaves the window as it is; so two accepted
\* notifications are at least one second apart.
C11_AcceptedIffWindowOver ==
    [][/\ Accepts => /\ last_modified = -1 \/ now - last_modified >= TicksPerSecond
                     /\ last_modified' = now
                     /\ last_modified >= 0 => last_modified' - last_modified >= TicksPerSecond
       /\ Rejects => /\ last_modified >= 0
                     /\ now - last_modified < TicksPerSecond
                     /\ last_modified' = last_modified]_vars

\* a second notification accepted exactly one second after the first
C11_Witness ==
    /\ wpc = "refresh"
    /\ last_modified = TicksPerSecond
    /\ now = TicksPerSecond
    /\ changed_cells # <<>>

\* C12: when the processing of an accepted notification ends, previous_cells
\* is the name-to-text mapping of the document the handler read, whether the
\* refresh raised or not and whatever the executions of the cells did: a step
\* that ends the processing in _refresh_executor or in _detect_changed_cells
\* leaves the mapping of the document read in that step, and the executions
\* keep the mapping _detect_changed_cells left.
C12_PreviousCellsAlwaysUpdated ==
    [][/\ (wpc = "refresh" /\ wpc' = "idle")
            => previous_cells' = CurrentCells(ParsedCells(disk))
       /\ wpc = "detect"
            => previous_cells' = CurrentCells(ParsedCells(disk))
       /\ wpc = "exec"
            => previous_cells' = previous_cells]_vars

\* a step of the loop over the execute set
ExecutesChanged == wpc = "exec" /\ disk' = disk

\* C13: the loop of on_modified starts with nothing executed; each pass
\* executes the next name of the execute set, alone, and records its outcome;
\* a pass whose execute_cell failed goes on with the next name like any other
\* and never leaves on_modified; the handler returns after the pass for the
\* last name, so each name of the execute set is executed once, in order.
C13_EachChangedCellExecutedOnce ==
    [][/\ (wpc = "detect" /\ wpc' = "exec") => ran' = <<>>
       /\ ExecutesChanged =>
             /\ Len(ran) < Len(changed_cells)
             /\ Len(ran') = Len(ran) + 1
             /\ SubSeq(ran', 1, Len(ran)) = ran
             /\ ran'[Len(ran')].name = changed_cells[Len(ran')]
             /\ changed_cells' = changed_cells
             /\ handled' # "raised"
             /\ Len(ran') < Len(changed_cells) => wpc' = "exec"
             /\ Len(ran') = Len(changed_cells)
                   => /\ wpc' = "idle"
                      /\ handled' = "returned"
                      /\ [i \in 1..Len(ran') |-> ran'[i].name] = changed_cells]_vars

\* the handler returned after two executions, the first of which failed
C13_Witness ==
    /\ wpc = "idle"
    /\ handled = "returned"
    /\ Len(ran) = 2
    /\ Len(changed_cells) = 2
    /\ ~ran[1].ok
    /\ ran[2].ok

(***************************************************************************)
(* Properties of QsqlFile (specification SpecFile)                         *)
(***************************************************************************)
\* the numbers (from 0) of the lines of texts the name pattern is found in
Markers(texts) == {k \in 0..(Len(texts) - 1) : search(texts[k + 1]).matched}

\* text.split("\n"): the pieces between the newlines of text
Newlines(text) == {i \in 1..Len(text) : text[i] = "\n"}

Pieces(text, at, n) ==
    [k \in 1..(n + 1) |->
        SubSeq(text, IF k = 1 THEN 1 ELSE Nth(at, k - 1) + 1,
                     IF k <= n THEN Nth(at, k) - 1 ELSE Len(text))]

LinesIn(text) == Pieces(text, Newlines(text), Cardinality(Newlines(text)))

Covered(blocks) == UNION {blocks[i].cell_start..blocks[i].cell_end : i \in 1..Len(blocks)}

BlocksCut(texts, markers, blocks) ==
    /\ Len(blocks) = Cardinality(markers)
    /\ \A i \in 1..Len(blocks) :
          /\ blocks[i].cell_start \in markers
          /\ blocks[i].cell_end = IF i < Len(blocks) THEN blocks[i + 1].cell_start - 1
                                  ELSE Len(texts) - 1
          /\ blocks[i].cell_start <= blocks[i].cell_end
          /\ LinesIn(blocks[i].text)
                = SubSeq(texts, blocks[i].cell_start + 1, blocks[i].cell_end + 1)
    /\ \A i, j \in 1..Len(blocks) :
          i < j => blocks[i].cell_end < blocks[j].cell_start
    /\ \A k \in 0..(Len(texts) - 1) :
          k \in Covered(blocks) <=> \E m \in markers : m <= k

\* C14: a document with N marker lines has N cell blocks, in increasing
\* order of cell_start; each starts at a marker line and ends on the line
\* before the next marker, the last one on the last line of the document; its
\* text is the lines of that range; the blocks do not overlap and cover the
\* lines from the first marker to the end of the document.
C14_BlocksCutAtMarkers ==
    "cell_blocks" \in file_out.read
        => BlocksCut(splitlines(file_in.content),
                     Markers(splitlines(file_in.content)), file_out.cell_blocks)

\* two blocks after a header line, the first of more than one line
C14_Witness ==
    /\ "cell_blocks" \in file_out.read
    /\ Len(file_out.cell_blocks) = 2
    /\ file_out.cell_blocks[1].cell_start = 1
    /\ file_out.cell_blocks[1].cell_end = 2
    /\ file_out.cell_blocks[2].cell_start = 3

\* the number of the first marker line of texts from line k on, Len(texts)
\* if there is none
RECURSIVE FirstMarker(_, _)
FirstMarker(texts, k) ==
    IF k >= Len(texts) \/ search(texts[k + 1]).matched THEN k
    ELSE FirstMarker(texts, k + 1)

\* the header is the lines before line number first
HeaderIsLinesBefore(texts, first, head) ==
    IF first = 0 THEN head = <<>> ELSE LinesIn(head) = SubSeq(texts, 1, first)

\* each line is in the header or in exactly one block, never in both
EachLineOnce(texts, first, blocks) ==
    \A k \in 0..(Len(texts) - 1) :
        /\ k < first <=> ~\E i \in 1..Len(blocks) :
                             k \in blocks[i].cell_start..blocks[i].cell_end
        /\ \A i, j \in 1..Len(blocks) :
              /\ k \in blocks[i].cell_start..blocks[i].cell_end
              /\ k \in blocks[j].cell_start..blocks[j].cell_end
              => i = j

HeaderAndBlocks(content, texts, markers, out) ==
    IF Cardinality(markers) = 0
    THEN /\ "header" \in out.read => out.header = content
         /\ "cell_blocks" \in out.read => out.cell_blocks = <<>>
    ELSE /\ "header" \in out.read => HeaderIsLinesBefore(texts, FirstMarker(texts, 0), out.header)
         /\ "cell_blocks" \in out.read => EachLineOnce(texts, FirstMarker(texts, 0), out.cell_blocks)

\* C15: the header is the lines before the first cell block; the header
\* and the blocks together hold every line of the document once; a document
\* without marker has no cell block and its header is the whole content.
C15_HeaderIsWhatPrecedesFirstBlock ==
    file_out.read # {}
        => HeaderAndBlocks(file_in.content, splitlines(file_in.content),
                           Markers(splitlines(file_in.content)), file_out)

\* a header of two lines before the first of the blocks
C15_Witness ==
    /\ {"header", "cell_blocks"} \subseteq file_out.read
    /\ Len(file_out.cell_blocks) >= 1
    /\ file_out.cell_blocks[1].cell_start = 2
    /\ Len(LinesIn(file_out.header)) = 2

\* C16: the names of the cell blocks of a document are pairwise distinct
\* (so that an index by name, and previous_cells, has one entry per block).
C16_CellNamesDistinct ==
    "cell_blocks" \in file_out.read
        => /\ \A i, j \in 1..Len(file_out.cell_blocks) :
                 file_out.cell_blocks[i].cell_name = file_out.cell_blocks[j].cell_name
                     => i = j
           /\ Cardinality({file_out.cell_blocks[i].cell_name :
                              i \in 1..Len(file_out.cell_blocks)})
                 = Len(file_out.cell_blocks)

\* merged is base overridden key by key by over
Overrides(merged, base, over) ==
    /\ DictKeys(merged) = DictKeys(base) \cup DictKeys(over)
    /\ \A i, j \in 1..Len(merged) : merged[i][1] = merged[j][1] => i = j
    /\ \A key \in DictKeys(merged) :
          DictGet(merged, key) = IF DictHas(over, key) THEN DictGet(over, key)
                                 ELSE DictGet(base, key)

EachMerged(cells, header_config, parsers) ==
    \A i \in 1..Len(cells) :
        Overrides(cells[i].config, header_config, ParseAll(parsers, cells[i].text, 1, <<>>))

\* C17: the config of each parsed cell is the config parsed from the header
\* overridden key by key by the config parsed from the text of the cell:
\* header {a: 1, b: h} and cell {b: c, c: 4} give a: 1, b: c, c: 4; the
\* header config is the same for every cell of the document.
C17_CellConfigOverridesHeader ==
    "parsed_cells" \in file_out.read
        => EachMerged(file_out.parsed_cells,
                      ParseAll(file_in.parsers, header(file_in.content), 1, <<>>),
                      file_in.parsers)

\* header {a: 1, b: h}, first cell {name: q1, b: c, c: 4}
C17_Witness ==
    /\ {"parsed_cells", "parsed_header"} \subseteq file_out.read
    /\ file_out.parsed_header = << <<(<<"a">>), (<<"1">>)>>, <<(<<"b">>), (<<"h">>)>> >>
    /\ Len(file_out.parsed_cells) = 2
    /\ \A i \in 1..2 : {<<"a">>, <<"b">>} \subseteq DictKeys(file_out.parsed_cells[i].config)
    /\ DictHas(file_out.parsed_cells[1].config, <<"c">>)
    /\ DictGet(file_out.parsed_cells[1].config, <<"a">>) = <<"1">>
    /\ DictGet(file_out.parsed_cells[1].config, <<"b">>) = <<"c">>
    /\ DictGet(file_out.parsed_cells[1].config, <<"c">>) = <<"4">>
    /\ DictGet(file_out.parsed_cells[2].config, <<"b">>) = <<"h">>

\* parser finds key in the header text or in the text of the cell
Produces(parser, head, text, key) ==
    DictHas(parse(parser, head), key) \/ DictHas(parse(parser, text), key)

\* the value parser has for key: the one of the cell text, else the header's
ValueBy(parser, head, text, key) ==
    IF DictHas(parse(parser, text), key) THEN DictGet(parse(parser, text), key)
    ELSE DictGet(parse(parser, head), key)

LaterParserWins(parsers, head, cell) ==
    \A key \in DictKeys(cell.config) :
        \A i, j \in 1..Len(parsers) :
            /\ i < j
            /\ Produces(parsers[i], head, cell.text, key)
            /\ Produces(parsers[j], head, cell.text, key)
            /\ \A l \in (j + 1)..Len(parsers) : ~Produces(parsers[l], head, cell.text, key)
            => DictGet(cell.config, key) = ValueBy(parsers[j], head, cell.text, key)

\* C18 as stated: when two of the parsers of a file both produce a value for
\* a key, from the header text or from the text of the cell, the merged
\* config of the cell has the value of the parser that is later in the list.
C18_LaterParserWinsEverywhere ==
    "parsed_cells" \in file_out.read
        => \A c \in 1..Len(file_out.parsed_cells) :
              LaterParserWins(file_in.parsers, header(file_in.content),
                              file_out.parsed_cells[c])

(***************************************************************************)
(* Properties of ConnectionResolver (specification SpecResolve)            *)
(***************************************************************************)
\* s ends in suffix, letter case aside
EndsInIgnoringCase(s, suffix) ==
    /\ Len(s) >= Len(suffix)
    /\ \A i \in 1..Len(suffix) :
          LowerChar(s[Len(s) - Len(suffix) + i]) = LowerChar(suffix[i])

NamesTheInput(message, input) ==
    \E p \in 2..(Len(message) + 1) :
        /\ p + Len(input) - 1 <= Len(message)
        /\ SubSeq(message, p, p + Len(input) - 1) = input
        /\ message[p - 1] = S_cannot

\* C19: resolve returns "duckdb" for every string that, letter case aside,
\* ends in ".ddb" or ".duckdb" or is ":memory:", and raises an error whose
\* message names the input for every string no matcher accepts.
C19_DuckdbPathsAndUnknownInputs ==
    conn_out.called =>
        /\ (\/ EndsInIgnoringCase(conn_in, S_ddb)
            \/ EndsInIgnoringCase(conn_in, S_dotduck)
            \/ (Len(conn_in) = Len(S_memory) /\ EndsInIgnoringCase(conn_in, S_memory)))
              => conn_out.ok /\ conn_out.backend_name = S_duckdb
        /\ (\A j \in 1..Len(_resolvers) : ~Matches(_resolvers[j], conn_in))
              => ~conn_out.ok /\ NamesTheInput(conn_out.message, conn_in)

\* a path written in capitals resolved to duckdb
C19_Witness ==
    /\ conn_out.called
    /\ conn_out.ok
    /\ conn_out.backend_name = S_duckdb
    /\ conn_in = <<"a", ".", "D", "u", "c", "k", "D", "B">>

\* C20 as stated: every connection string that begins with "bigquery://"
\* resolves to "bigquery", whatever follows the scheme.
C20_BigqueryScheme ==
    (conn_out.called /\ StartsWith(conn_in, S_bqscheme))
        => conn_out.ok /\ conn_out.backend_name = S_bigquery

\* C20, amended: a connection string that begins with "bigquery://" resolves
\* to "bigquery" unless, trailing blanks and letter case aside, it ends in
\* ".ddb" or ".duckdb"; then it resolves to "duckdb", whose matcher is
\* registered first.
C20_BigqueryUnlessDuckdbPath ==
    (conn_out.called /\ StartsWith(conn_in, S_bqscheme))
        => /\ conn_out.ok
           /\ conn_out.backend_name =
                 IF \/ EndsInIgnoringCase(RStrip(conn_in), S_ddb)
                    \/ EndsInIgnoringCase(RStrip(conn_in), S_dotduck)
                 THEN S_duckdb ELSE S_bigquery

\* "bigquery://p/l.ddb" resolved
C20_Witness ==
    /\ conn_out.called
    /\ conn_in = S_bqscheme \o <<"p", "/", "l">> \o S_ddb
    /\ conn_out.backend_name = S_duckdb

\* the last parser of the list that finds key in data has value for it
LastFinds(parsers, data, key, value) ==
    \E j \in 1..Len(parsers) :
        /\ DictHas(parse(parsers[j], data), key)
        /\ DictGet(parse(parsers[j], data), key) = value
        /\ \A l \in (j + 1)..Len(parsers) : ~DictHas(parse(parsers[l], data), key)

FoundIn(parsers, data, key) ==
    \E j \in 1..Len(parsers) : DictHas(parse(parsers[j], data), key)

LaterParserWinsPerText(parsers, head, cell) ==
    \A key \in DictKeys(cell.config) :
        IF FoundIn(parsers, cell.text, key)
        THEN LastFinds(parsers, cell.text, key, DictGet(cell.config, key))
        ELSE LastFinds(parsers, head, key, DictGet(cell.config, key))

\* C18, amended: when several parsers find a key in the text of the cell,
\* the merged config has the value of the last of them in the list, whatever
\* the parsers find in the header; when none finds it in the cell, it has
\* the value of the last parser of the list that finds it in the header.
C18_LaterParserWinsWithinText ==
    "parsed_cells" \in file_out.read
        => \A c \in 1..Len(file_out.parsed_cells) :
              LaterParserWinsPerText(file_in.parsers, header(file_in.content),
                                     file_out.parsed_cells[c])

\* the registry's parsers on a header in which both find b, with a first cell
\* in which both find b and a second cell in which none does
C18_Witness ==
    /\ "parsed_cells" \in file_out.read
    /\ file_in.parsers = _parsers
    /\ Len(file_out.parsed_cells) = 2
    /\ \A c \in 1..2 : DictHas(file_out.parsed_cells[c].config, <<"b">>)
    /\ DictGet(file_out.parsed_cells[1].config, <<"b">>) = <<"z">>
    /\ DictGet(file_out.parsed_cells[2].config, <<"b">>) = <<"y">>
    /\ FoundIn(<<"key_value">>, file_out.parsed_cells[1].text, <<"b">>)
    /\ FoundIn(<<"key_value">>, header(file_in.content), <<"b">>)
(***************************************************************************)
(* Properties of CellConfig and of the errors validate_cells emits         *)
(* (specification SpecValidate)                                            *)
(***************************************************************************)
\* the errors of the report that belong to a cell
ErrorsOf(errors, cell) ==
    {k \in 1..Len(errors) : /\ errors[k].cell_name = cell.cell_name
                            /\ errors[k].cell_start_line = cell.cell_start}

\* nothing but the input can be wrong with the config
SchemaClean(config) ==
    /\ config.output.kind # "other"
    /\ config.input.kind = "resolved" => config.input.aStr /\ config.input.bStr

\* the input was rejected: no validated config, and an error of the model
RejectedInput(out, i, cell) ==
    /\ out.cells[i].validated_config.isNone
    /\ \E k \in ErrorsOf(out.errors, cell) : out.errors[k].field_path = DotJoin(FP_root)

\* the input was taken as `input`: no error of the model, and the validated
\* config holds it unless a field has a schema error
TakenAs(out, i, cell, input) ==
    /\ \A k \in ErrorsOf(out.errors, cell) : out.errors[k].field_path # DotJoin(FP_root)
    /\ SchemaClean(cell.config) =>
          /\ ~out.cells[i].validated_config.isNone
          /\ out.cells[i].validated_config.input = input

NormalisedByPrecedence(out, i, cell, raw) ==
    CASE raw.kind = "none" -> TakenAs(out, i, cell, NoneInput)
      [] raw.kind = "resolved" -> TakenAs(out, i, cell, InputConfig(raw.a, raw.b))
      [] raw.kind = "str" ->
            IF Resolve(raw.a).ok
            THEN TakenAs(out, i, cell, InputConfig(Resolve(raw.a).backend_name, raw.a))
            ELSE RejectedInput(out, i, cell)
      [] raw.kind = "dict1" -> TakenAs(out, i, cell, InputConfig(raw.a, raw.b))
      [] OTHER -> RejectedInput(out, i, cell)

\* C21: CellConfig normalises the raw input by precedence: absent or null
\* gives no input; an already resolved mapping passes through; a bare string s
\* gives (resolve(s), s), and is rejected when nothing resolves it; a mapping
\* of one entry {b: c} gives (b, c) for any b, registered or not; a mapping of
\* any other number of entries and a value of any other type are rejected.
C21_InputNormalisedByPrecedence ==
    val_out.called =>
        \A i \in 1..Len(val_in.doc) :
            NormalisedByPrecedence(val_out, i, ParsedCells(val_in.doc)[i],
                                   val_in.doc[i].config.input)

\* a pass over a mapping of one entry whose key no resolver is registered for,
\* a mapping of several entries and a resolved mapping: the first gives the
\* pair, the second is rejected, the third passes through
C21_Witness ==
    /\ val_out.called
    /\ Len(val_in.doc) = 3
    /\ val_in.doc[1].config = Cfg_dictX
    /\ val_in.doc[2].config = Cfg_dictN
    /\ val_in.doc[3].config = Cfg_full
    /\ val_out.cells[1].validated_config.input = InputConfig(CS_x_xyz, CS_a_ddb)
    /\ val_out.cells[2].validated_config.isNone
    /\ val_out.cells[3].validated_config.input = InputConfig(S_duckdb, CS_a_ddb)

\* a cell whose input is a bare string that no matcher resolves
Unresolvable(cell) ==
    /\ cell.config.input.kind = "str"
    /\ ~Resolve(cell.config.input.a).ok

\* C22: when a cell's input is a bare string that no matcher resolves,
\* validate_cells emits exactly one CellValidationError for that cell and its
\* field_path is "input".
C22_UnresolvableInputReportedAsInput ==
    val_out.called =>
        \A i \in 1..Len(val_in.doc) :
            Unresolvable(ParsedCells(val_in.doc)[i]) =>
                /\ Cardinality(ErrorsOf(val_out.errors, ParsedCells(val_in.doc)[i])) = 1
                /\ \A k \in ErrorsOf(val_out.errors, ParsedCells(val_in.doc)[i]) :
                      val_out.errors[k].field_path = S_input
\* C30: validation is side-effect-free: validate_cells does not modify the
\* merged config mapping of any cell, so after validation each cell's config,
\* in particular its raw input value, equals what it was before validation.
C30_ValidationLeavesConfigsAlone ==
    val_out.called =>
        \A i \in 1..Len(val_out.cells) :
            val_out.cells[i].config = ParsedCells(val_in.doc)[i].config
(***************************************************************************)
(* Properties of the decorators and of the builder (specification Spec)    *)
(***************************************************************************)
DecoratorKinds == {"log_start", "log_done", "log_fail", "mkdir", "write", "warn"}

\* the calls link k made on its logger and on the file system
LinkEvents(trace, k) ==
    {i \in 1..Len(trace) : trace[i].id = k /\ trace[i].kind \in DecoratorKinds}

OutputDir(index, name) == DictGet(index, name).validated_config.output.path

\* link k made the directory and then wrote the file of the cell in it
Wrote(trace, k, name, dir) ==
    \E i, j \in LinkEvents(trace, k) :
        /\ i < j
        /\ trace[i].kind = "mkdir" /\ trace[i].key = dir
        /\ trace[j].kind = "write" /\ trace[j].key = ParquetPath(dir, name)
        /\ LinkEvents(trace, k) = {i, j}

\* output link k, `inner` being what the link it wraps did and `full` what
\* the link did
OutputLinkActs(index, name, k, inner, full) ==
    /\ IF inner.ok /\ HasOutput(index, name)
       THEN /\ \E i \in LinkEvents(full.W.trace, k) :
                  /\ full.W.trace[i].kind = "mkdir"
                  /\ full.W.trace[i].key = OutputDir(index, name)
            /\ \A i \in LinkEvents(full.W.trace, k) :
                  full.W.trace[i].kind = "write" =>
                      full.W.trace[i].key = ParquetPath(OutputDir(index, name), name)
            /\ (full.ok /\ \A i \in LinkEvents(full.W.trace, k) :
                               full.W.trace[i].kind # "warn")
                  => Wrote(full.W.trace, k, name, OutputDir(index, name))
       ELSE LinkEvents(full.W.trace, k) = {}
    /\ full.ok => inner.ok /\ full.result = inner.result

\* the environments under which execute_cell(name) on the outermost link does
\* what the call just made did
Explains(oracle, name) ==
    /\ Allowed(oracle)
    /\ SameOutcome([last' EXCEPT !.result = IF last'.ok THEN last'.result[1][2]
                                            ELSE NoResult],
                   _backend_conns',
                   execute_cell_at(Len(chain), World, chain, _cells_by_name, name, 1,
                                   oracle))

\* C23: OutputDecorator.execute_cell writes {output}/{cell_name}.parquet,
\* making the directory first, exactly when the delegated execution succeeded
\* and the validated config of the cell has a non-null output; when the
\* delegated execution fails or the cell has no output, it makes no directory
\* and writes no file; whenever it returns, it returns the delegated result.
C23_OutputWrittenIffSucceededAndConfigured ==
    [][Calls("execute_cell") =>
          \A oracle \in Oracles(1) :
              Explains(oracle, last'.names[1]) =>
                  \A k \in 1..Len(chain) :
                      chain[k] = "O" =>
                          OutputLinkActs(_cells_by_name, last'.names[1], k,
                              execute_cell_at(k - 1, World, chain, _cells_by_name,
                                              last'.names[1], 1, oracle),
                              execute_cell_at(k, World, chain, _cells_by_name,
                                              last'.names[1], 1, oracle))]_vars

\* q1, which has the output "out", was executed through an output decorator:
\* out/q1.parquet was written and the result of the backend came back
C23_Witness ==
    /\ last.op = "execute_cell"
    /\ last.ok
    /\ last.names = <<"q1">>
    /\ \E k \in 1..Len(chain) :
          /\ chain[k] = "O"
          /\ Wrote(last.trace, k, "q1", P_out)
    /\ ~DictGet(last.result, "q1").isNone
    /\ DictGet(last.result, "q1").text = DictGet(_cells_by_name, "q1").text

\* link k hands on the failure of the link it wraps, a logging link after
\* logging it
HandsOn(k, inner, full) ==
    ~inner.ok =>
        /\ ~full.ok
        /\ full.err = inner.err
        /\ chain[k] = "L" =>
              \E i \in LinkEvents(full.W.trace, k) : full.W.trace[i].kind = "log_fail"

\* output link k fails when the write it makes fails, unless the result has
\* no write_parquet
AbsorbsMissingCapabilityOnly(oracle, index, name, k, inner, full) ==
    (chain[k] = "O" /\ inner.ok /\ HasOutput(index, name)) =>
        CASE oracle.what = "noattr" -> full.ok
          [] oracle.what \in {"mkdir", "write", "attr"} -> ~full.ok
          [] OTHER -> full.ok

\* C24: for any chain of logging and output decorators, an error raised by the
\* wrapped execute_cell reaches the caller unchanged, the logging decorator
\* having logged it; the only failure a decorator absorbs is that of a result
\* that cannot be written for lack of the capability, every other failure
\* while writing the output propagates.
C24_FailuresPropagate ==
    [][Calls("execute_cell") =>
          \A oracle \in Oracles(1) :
              Explains(oracle, last'.names[1]) =>
                  \A k \in 1..Len(chain) :
                      /\ HandsOn(k,
                              execute_cell_at(k - 1, World, chain, _cells_by_name,
                                              last'.names[1], 1, oracle),
                              execute_cell_at(k, World, chain, _cells_by_name,
                                              last'.names[1], 1, oracle))
                      /\ AbsorbsMissingCapabilityOnly(oracle, _cells_by_name,
                              last'.names[1], k,
                              execute_cell_at(k - 1, World, chain, _cells_by_name,
                                              last'.names[1], 1, oracle),
                              execute_cell_at(k, World, chain, _cells_by_name,
                                              last'.names[1], 1, oracle))]_vars
\* the decorator a call on a logger or on the file system comes from
DecoratorOf(ev) == IF ev.kind \in {"log_start", "log_done", "log_fail"} THEN "L" ELSE "O"

\* the calls of the decorators in a trace
DecoratorEvents(trace) == {i \in 1..Len(trace) : trace[i].kind \in DecoratorKinds}

\* link k is the decorator of the k-th registered factory, and what the last
\* link does for the cell ends the call
InRegistrationOrder(factories, trace) ==
    /\ \A i \in DecoratorEvents(trace) :
          /\ trace[i].id \in 1..Len(factories)
          /\ DecoratorOf(trace[i]) = factories[trace[i].id]
    /\ LinkEvents(trace, Len(factories)) # {} =>
          /\ Len(trace) \in LinkEvents(trace, Len(factories))
          /\ \A i \in DecoratorEvents(trace) :
                \E j \in LinkEvents(trace, Len(factories)) : i <= j

\* C25: ExecutorBuilder.build wraps the base with the registered decorator
\* factories in registration order, innermost first: the decorator registered
\* first wraps the base, the one registered last is the outermost link, which
\* the caller holds, and what it does for a cell completes after what every
\* inner decorator does for that cell.
C25_DecoratorsWrapInRegistrationOrder ==
    /\ phase = "built" =>
          /\ Len(chain) = Len(_decorator_factories)
          /\ \A k \in 1..Len(chain) : chain[k] = _decorator_factories[k]
    /\ last.op = "execute_cell" =>
          InRegistrationOrder(_decorator_factories, last.trace)

\* output registered first and logging last: the file of q1 was written by
\* link 1 before link 2 logged the completion, which ends the call
C25_Witness ==
    /\ last.op = "execute_cell"
    /\ last.ok
    /\ _decorator_factories = <<"O", "L">>
    /\ Wrote(last.trace, 1, "q1", P_out)
    /\ last.trace[Len(last.trace)].kind = "log_done"
    /\ last.trace[Len(last.trace)].id = 2
\* the cell of the name names, explicitly, a backend that is not registered
UnregisteredCase(index, name) ==
    /\ DictHas(index, name)
    /\ ~DictGet(index, name).validated_config.isNone
    /\ ~DictGet(index, name).validated_config.input.isNone
    /\ DictGet(index, name).validated_config.input.backend_name \notin registered

\* C27: BackendRegistry.get_backend fails with the "not registered" error for
\* every name that was never registered, it never returns null; execute_cell
\* on a cell whose backend name is not registered propagates that error to
\* the caller, through every decorator, and adds nothing to the connection
\* cache.
C27_UnregisteredBackendFails ==
    [][(Calls("execute_cell") /\ UnregisteredCase(_cells_by_name, last'.names[1])) =>
          /\ ~get_backend(DictGet(_cells_by_name, last'.names[1])
                              .validated_config.input.backend_name).ok
          /\ ~last'.ok
          /\ last'.err = "NotRegistered"
          /\ last'.result = <<>>
          /\ Untouched(_backend_conns, _backend_conns', last'.trace)]_vars

\* q2 names the backend "x.xyz": executed through a decorator while q1's
\* connection is cached, the call failed and the cache still holds one entry
C27_Witness ==
    /\ last.op = "execute_cell"
    /\ last.names = <<"q2">>
    /\ UnregisteredCase(_cells_by_name, "q2")
    /\ chain # <<>>
    /\ last.err = "NotRegistered"
    /\ Len(_backend_conns) = 1
(***************************************************************************)
(* Properties of a backend object (specification SpecBackend)              *)
(***************************************************************************)
\* C26: a backend follows the lifecycle not-connected, connected, closed:
\* execute on a backend that is not connected, never connected or closed,
\* raises an error and returns no result; close on a backend that is not
\* connected does nothing; after a close that returned the backend is not
\* connected again.
C26_BackendLifecycle ==
    [][/\ (bcall'.op = "execute" /\ backend.conn = 0) =>
             /\ ~bcall'.ok
             /\ bcall'.err = "RuntimeError"
             /\ bcall'.result.isNone
             /\ backend' = backend
             /\ engine' = engine
       /\ (bcall'.op = "execute" /\ bcall'.ok) =>
             /\ backend.conn # 0
             /\ ~bcall'.result.isNone
       /\ (bcall'.op = "close" /\ backend.conn = 0) =>
             /\ bcall'.ok
             /\ backend' = backend
             /\ engine' = engine
       /\ (bcall'.op = "close" /\ bcall'.ok) =>
             /\ backend'.conn = 0
             /\ backend.conn \notin engine'.open
       /\ (bcall'.op = "connect" /\ bcall'.ok) => backend'.conn \in engine'.open]_vars

\* a BigQuery backend that was connected and closed: execute on it raised
C26_Witness ==
    /\ backend.class = S_bigquery
    /\ engine.opened > 0
    /\ engine.open = {}
    /\ backend.conn = 0
    /\ backend.project.isNone
    /\ bcall.op = "execute"
    /\ ~bcall.ok
    /\ bcall.err = "RuntimeError"

(***************************************************************************)
(* Properties of a QsqlFile and its backing file (SpecAccess)              *)
(***************************************************************************)
\* C28: a QsqlFile is an immutable snapshot: what a property of one instance
\* returns is the same at every access after construction, even when the
\* backing file is rewritten in between.
C28_SnapshotIsImmutable ==
    (read_out.ok /\ read_out.op \in AccessProperties) =>
        read_out.value = DictGet(seen, read_out.op)

\* the delays double from the base delay on
Doubling(slept) ==
    \A i \in 1..Len(slept) : slept[i] = IF i = 1 THEN 1 ELSE 2 * slept[i - 1]

\* a retry loop with this number of retries, after `attempt` passes
WithinRetries(max_retries) ==
    /\ qf.attempt <= max_retries
    /\ Len(qf.slept) = qf.attempt
    /\ Doubling(qf.slept)

\* an operation that ended after a loop with this number of retries
EndedWithin(max_retries) ==
    /\ read_out.attempts <= max_retries + 1
    /\ Len(read_out.slept) = read_out.attempts - 1
    /\ Doubling(read_out.slept)
    /\ read_out.err = "FileNotFoundError" => read_out.attempts = max_retries + 1

BoundedRetries ==
    /\ qf.pc = "validating" => WithinRetries(ValidateMaxRetries)
    /\ qf.pc = "reading" => WithinRetries(ReadMaxRetries)
    /\ read_out.op = "init" => EndedWithin(ValidateMaxRetries)
    /\ read_out.op \in AccessProperties => EndedWithin(ReadMaxRetries)

\* a pass that finds the file ends the operation with success, and
\* FileNotFoundError is raised only by a pass that finds the file missing
SucceedsWhenAvailable ==
    /\ (qf.pc = "validating" /\ qf' # qf /\ fs.state # "missing") =>
          qf'.pc = "ready" /\ read_out'.ok
    /\ (qf.pc = "reading" /\ qf' # qf /\ fs.state = "ok") =>
          qf'.pc = "ready" /\ read_out'.ok
    /\ (read_out' # read_out /\ read_out'.err = "FileNotFoundError") =>
          fs.state = "missing"

\* C29: file access is retried a bounded number of times with doubling delays
\* and always terminates: construction checks existence at most 3 times and a
\* content read attempts at most 4 times; the operation succeeds if the file
\* is available at any attempt, and raises FileNotFoundError only after the
\* last attempt found it missing.
C29_BoundedRetriesTerminate ==
    /\ []BoundedRetries
    /\ [][SucceedsWhenAvailable]_vars
    /\ (qf.pc \in {"validating", "reading"}) ~> (qf.pc \in {"ready", "failed"})

\* a read that found the file missing three times and read it at the fourth
\* attempt, after waiting 1, 2 and 4 base delays
C29_Witness ==
    /\ read_out.op = "content"
    /\ read_out.ok
    /\ read_out.attempts = 4
    /\ read_out.slept = <<1, 2, 4>>
    /\ read_out.value = D_two
(***************************************************************************)
(* More properties of the executor (specification Spec)                    *)
(***************************************************************************)
\* the cell of the index whose validation failed: it has no validated config
NullConfigCase(index, name) ==
    /\ DictHas(index, name)
    /\ DictGet(index, name).validated_config.isNone

\* C33: in an executor built without validation, execute_cell on a cell whose
\* validation failed, whose validated config is null, fails with the
\* missing-input error and with no other, and connects no backend.
C33_NullConfigIsMissingInput ==
    [][(Calls("execute_cell") /\ NullConfigCase(_cells_by_name, last'.names[1])) =>
          /\ _skip_validation
          /\ ~last'.ok
          /\ last'.err = "NoInput"
          /\ Untouched(_backend_conns, _backend_conns', last'.trace)]_vars

\* what execute_cell(name) on the outermost link does when no call fails
Runs(ch, conns, n, index, name) ==
    execute_cell_at(Len(ch), [conns |-> conns, next_id |-> n, trace |-> <<>>], ch,
                    index, name, 1, NoFailure)

\* C34: if refresh(snapshot) raises QsqlConfigError, which it does in strict
\* mode for a snapshot with an invalid cell, the cell index and the connection
\* cache are as before the call, and every cell of the previous snapshot is
\* executed as before it, with its previous text and configuration.
C34_FailedRefreshChangesNothing ==
    [][(Calls("refresh") /\ ~last'.ok) =>
          /\ last'.err = "QsqlConfigError"
          /\ ~_skip_validation
          /\ _validated_cells' = _validated_cells
          /\ _cells_by_name' = _cells_by_name
          /\ _backend_conns' = _backend_conns
          /\ next_id' = next_id
          /\ \A name \in DictKeys(_cells_by_name) :
                Runs(chain', _backend_conns', next_id', _cells_by_name', name)
                   = Runs(chain, _backend_conns, next_id, _cells_by_name, name)]_vars

\* a refresh raised for a snapshot with an invalid q1 while the index holds
\* q1 with text "B" and q2, and a connection is cached
C34_Witness ==
    /\ last.op = "refresh"
    /\ ~last.ok
    /\ last.doc = <<E_q2A, E_q1X>>
    /\ _backend_conns # <<>>
    /\ DictHas(_cells_by_name, "q1")
    /\ DictGet(_cells_by_name, "q1").text = "B"
    /\ DictHas(_cells_by_name, "q2")

\* C35: after any sequence of execute_cell, execute_many, refresh and close,
\* including ones in which a backend's connect or close fails, every backend
\* in the connection cache is connected and not closed, so that execute_cell
\* never hands a query to a backend that is not connected.
C35_CachedBackendsAreConnected ==
    /\ \A i \in 1..Len(_backend_conns) : _backend_conns[i][2].connected
    /\ last.err # "NotConnected"
(***************************************************************************)
(* Properties of the connection cache (specification SpecCache)            *)
(***************************************************************************)
\* the backend that answered is one of the cell's backend name, connected
\* with the cell's connection string
OwnBackend(cell, result) ==
    /\ result.backend_name = cell.validated_config.input.backend_name
    /\ result.connection_string = cell.validated_config.input.connection_string

\* C36: two cells whose (backend name, connection string) pairs differ never
\* share a cached connection: the query of a cell is executed by a backend of
\* the cell's own backend name that was connected with the cell's own
\* connection string, for all backend names and connection strings, those
\* that contain ":" included.
C36_CellsRunOnTheirOwnConnection ==
    [][(Calls("execute_cell") /\ last'.ok) =>
          OwnBackend(DictGet(_cells_by_name, last'.names[1]),
                     DictGet(last'.result, last'.names[1]))]_vars
(***************************************************************************)
(* More properties of the watcher (specification SpecWatcher)              *)
(***************************************************************************)
\* a step of on_modified while it processes an accepted notification
Processes == wpc \in {"refresh", "detect", "exec"} /\ wpc' # wpc

\* nothing of the executor and of the handler's record of the cells changes
SameCellsAndConnections ==
    /\ previous_cells' = previous_cells
    /\ _cells_by_name' = _cells_by_name
    /\ _validated_cells' = _validated_cells
    /\ _backend_conns' = _backend_conns
    /\ next_id' = next_id

\* C31: processing an accepted notification is idempotent against redundant
\* triggers: if the file has not been saved since the previous accepted
\* notification, or since construction, the accepted notification yields an
\* empty execute set, executes no cell, creates no connection, and leaves
\* previous_cells and the executor's cell index with the contents they had.
C31_RedundantTriggerIsIdempotent ==
    [][(Processes /\ quiet = 2) =>
          /\ wpc # "exec"
          /\ wpc' # "exec"
          /\ wpc = "detect" => changed_cells' = <<>> /\ handled' = "returned"
          /\ ran' = <<>>
          /\ SameCellsAndConnections]_vars

\* a second notification for a file of two cells that was saved before the
\* first: it was accepted a second later and ended with nothing to execute,
\* while the first had executed both cells
C31_Witness ==
    /\ quiet = 2
    /\ wpc = "idle"
    /\ handled = "returned"
    /\ last_modified = TicksPerSecond
    /\ changed_cells = <<>>
    /\ ran = <<>>
    /\ Len(previous_cells) = 2
    /\ Len(_backend_conns) > 0

\* the steps in which on_modified returns at once
Ignores ==
    wpc = "idle" /\ handled' = "ignored" /\ handled # "ignored" /\ now' = now /\ disk' = disk

RejectsAnew ==
    wpc = "idle" /\ handled' = "debounced" /\ handled # "debounced" /\ now' = now
                 /\ disk' = disk

\* C32: a notification that is ignored, because its path is not exactly the
\* watched path or because it falls inside the debounce window, changes
\* nothing: the debounce timestamp, previous_cells, the executor's cell index
\* and the connection cache are as before, the handler does not go on to read
\* the file and no cell is executed.
C32_IgnoredNotificationChangesNothing ==
    [][(Ignores \/ RejectsAnew) =>
          /\ last_modified' = last_modified
          /\ SameCellsAndConnections
          /\ wpc' = "idle"
          /\ ran' = ran
          /\ changed_cells' = changed_cells
          /\ RejectsAnew => Debounced(now, last_modified)]_vars

\* a notification was rejected half a second after one that executed a cell,
\* although the file had been saved again in between
C32_Witness ==
    /\ handled = "debounced"
    /\ wpc = "idle"
    /\ last_modified = 0
    /\ now = 1
    /\ Len(ran) = 1
    /\ quiet = 0
    /\ previous_cells # CurrentCells(ParsedCells(disk))

\* the names of the document whose text is not the one the handler read for
\* them at the last accepted notification, or at construction
Differing(accepted, current_cells) ==
    {current_cells[i][1] : i \in {j \in 1..Len(current_cells) :
        \/ ~DictHas(accepted, current_cells[j][1])
        \/ DictGet(accepted, current_cells[j][1]) # current_cells[j][2]}}

\* C37: a change to a cell's text whose notification is debounced is not
\* lost: previous_cells is changed only by accepted notifications, so at the
\* next accepted notification the cell is in the execute set whenever its
\* text still differs from its text at the last accepted notification.
C37_DebouncedChangeIsNotLost ==
    [][/\ previous_cells' # previous_cells => wpc \in {"init", "detect"}
       /\ (wpc = "detect" /\ wpc' # "detect") =>
             Differing(accepted_cells, CurrentCells(ParsedCells(disk)))
                \subseteq {changed_cells'[i] : i \in 1..Len(changed_cells')}]_vars

\* C38: an accepted notification whose new document differs from the previous
\* one only in the header text, so that every cell has the name and the text
\* it had, yields an empty execute set and executes no cell, even when the
\* header change alters the input or output of every cell; the executor's
\* cell index carries the new configuration after the refresh.
C38_HeaderChangeExecutesNothing ==
    [][/\ (wpc = "refresh" /\ wpc' = "detect"
            /\ CurrentCells(ParsedCells(disk)) = accepted_cells) =>
             IndexHolds(_cells_by_name', disk)
       /\ (wpc = "detect" /\ wpc' # "detect"
            /\ CurrentCells(_validated_cells) = accepted_cells
            /\ CurrentCells(ParsedCells(disk)) = accepted_cells) =>
             /\ changed_cells' = <<>>
             /\ wpc' = "idle"
             /\ ran' = <<>>]_vars

\* C39: while an accepted notification is processed, the text the executor
\* runs for each cell of the execute set is the text recorded for that cell
\* in previous_cells, also when the file is rewritten while the notification
\* is being processed.
C39_ExecutedTextIsRecordedText ==
    [][(ExecutesChanged /\ ran'[Len(ran')].ok) =>
          ran'[Len(ran')].text = DictGet(previous_cells', ran'[Len(ran')].name)]_vars
====
